---- MODULE Spec2Model ----
(***************************************************************************)
(* State-machine model of yt-cipher-bun: the worker pool of                *)
(* src/src/workerPool.ts (with the worker of src/worker.ts) and the        *)
(* in-memory LRU+TTL cache of the cache manager, and the preprocessed      *)
(* disk store of the cache manager (getPreprocessed, setPreprocessed, the  *)
(* sweep and the debounced metadata document), the player store            *)
(* (validateUrl, getPlayerFilePath) and the decrypt-signature handler.     *)
(***************************************************************************)
EXTENDS Integers, Sequences, FiniteSets, TLC

(***************************************************************************)
(* Bounds of the model.  CONCURRENCY and MAX_QUEUE_SIZE keep the names of  *)
(* the program's constants (workerPool.ts:12 and :14) but are scaled down. *)
(***************************************************************************)
CONCURRENCY == 1
MAX_QUEUE_SIZE == 2
MaxTasks == 4
MaxFaults == 1

(***************************************************************************)
(* Bounds of the memory cache: maxSize and ttl are the constructor's       *)
(* arguments (50 to 500 entries, one hour to one day in the program).      *)
(***************************************************************************)
maxSize == 2
ttl == 1
MaxKeys == 3
MaxValues == 2
MaxTime == 2

(***************************************************************************)
(* Bounds of the disk store.  DISK_CACHE_SIZE, CACHE_TTL and               *)
(* COMPRESSION_THRESHOLD keep the names of the program's constants but are *)
(* scaled down; a content is modelled by its length, so the contents       *)
(* 1..COMPRESSION_THRESHOLD are stored raw and the longer ones compressed. *)
(***************************************************************************)
DISK_CACHE_SIZE == 2
CACHE_TTL == 1
COMPRESSION_THRESHOLD == 1
MaxPaths == 3
MaxContent == 2
MaxInFlight == 2
MaxCalls == 4
MaxRaces == 3
MaxExits == 1

(***************************************************************************)
(* Bounds of the request strings: a string is a sequence of at most MaxStr *)
(* characters.                                                             *)
(***************************************************************************)
MaxStr == 2

(***************************************************************************)
(* Bounds of the player store.  PLAYER_TTL keeps the name of the program's *)
(* constant but is scaled down; a player URL is a sequence of at most      *)
(* MaxUrl tokens, at most MaxRelUrl when it begins with "/".               *)
(***************************************************************************)
PLAYER_TTL == 1
MaxUrl == 3
MaxRelUrl == 1
MaxPlayerCalls == 3

(***************************************************************************)
(* The content key as a function of the URL: the two player URLs are      *)
(* strings of at most MaxKeyUrl tokens.                                    *)
(***************************************************************************)
MaxKeyUrl == 4

(***************************************************************************)
(* Bound of the handler: the number of requests received.                  *)
(***************************************************************************)
MaxRequests == 4

VARIABLES
  pool,              \* module variable `pool`: TRUE when a WorkerPool exists
  taskIdCounter,     \* module variable taskIdCounter
  workers,           \* WorkerPool.workers
  availableWorkers,  \* WorkerPool.availableWorkers
  queue,             \* WorkerPool.queue (task ids, oldest first)
  taskMap,           \* WorkerPool.taskMap: worker -> bound task
  timers,            \* armed task timers, as <<worker, task>>
  replaceTimers,     \* armed setTimeout(replace, 1000) callbacks per worker
  created,           \* number of Worker objects constructed by this pool
  terminated,        \* workers on which terminate() was called
  job,               \* worker side: the workers that hold a task's data
  late,              \* terminated workers whose last message may still arrive
  settled,           \* per task: the settlements of its promise, in order
  faults,            \* error events raised so far
  res,               \* what the API call of the last step returned ("none"
                     \* when the last step was an event)
  cache,             \* LRUCache.cache: the Map's entries in iteration order
  now,               \* the clock read by Date.now()
  ret,               \* the cache call of the last step: [op, k, arg, r,
                     \* tag], arg the value passed to set, r the return
                     \* value, tag the branch the call took
  metadata,          \* metadata.processed: the entries in key order
  metaLoaded,        \* module variable metaLoaded
  metaDirty,         \* module variable metaDirty
  saveTimer,         \* module variable saveTimer: "none", "armed", or
                     \* "saving" while the callback awaits saveMeta
  saveDoc,           \* the document the timer's writeFile is writing
  files,             \* the files of PROCESSED_DIR: <<path, zst>> -> content
  metaFile,          \* the processed part of META_FILE on disk
  calls,             \* the calls in progress, each at a suspension point
  dret,              \* the disk call that returned in the last step
  written,           \* history: the <<path, content>> given to setPreprocessed
  ncalls,            \* number of calls made so far
  exits,             \* number of times the process ended so far
  keyIn,             \* two requests' (path, encrypted_signature, n_param),
                     \* or two requests' player URLs
  keyOut,            \* the keys built for them (<<>> before the call)
  players,           \* metadata.players: hash -> [url, t, a, compressed]
  pfiles,            \* the player files of CACHE_DIR: <<hash, zst>> -> content
  pcall,             \* the getPlayerFilePath call in progress
  pret,              \* the getPlayerFilePath call that ended in the last
                     \* step: [allowed, h, r, tag, fetches, target], r the
                     \* path returned, target the URL fetched
  npcalls,           \* number of getPlayerFilePath calls made so far
  hstore,            \* what contentCache and the processed store hold for
                     \* the player of the requests: [pre, content]
  answered,          \* history: per (encrypted_signature, n_param) the
                     \* response last computed and its time
  hret,              \* the request answered in the last step: the status
                     \* and the pair of the response, the body, whether
                     \* sigCache was hit, the calls of execInPool and the
                     \* input passed, how getPlayerFilePath and the pool
                     \* ended, the reads and writes that failed
  nreq,              \* number of requests received so far
  reqs               \* the requests in progress that await execInPool or
                     \* the write of setPreprocessed: [pc, body, input]

poolVars == <<pool, taskIdCounter, workers, availableWorkers, queue, taskMap,
              timers, replaceTimers, created, terminated, job, late,
              settled, faults, res>>

cacheVars == <<cache, now, ret>>

diskVars == <<metadata, metaLoaded, metaDirty, saveTimer, saveDoc, files,
              metaFile, calls, dret, written, ncalls, exits>>

playerVars == <<players, pfiles, pcall, pret, npcalls>>

handlerVars == <<hstore, answered, hret, nreq, reqs>>

appVars == <<keyIn, keyOut, playerVars, handlerVars>>

vars == <<poolVars, cacheVars, diskVars, appVars>>

Tasks == 1..MaxTasks

----------------------------------------------------------------------------
(* Helpers on sequences and maps *)

Range(s) == {s[i] : i \in DOMAIN s}

IndexOf(s, x) ==
  IF x \in Range(s) THEN CHOOSE i \in DOMAIN s : s[i] = x /\ \A j \in 1..(i-1) : s[j] # x
  ELSE 0

RemoveAt(s, i) == SubSeq(s, 1, i-1) \o SubSeq(s, i+1, Len(s))

MapDelete(f, k) == [x \in DOMAIN f \ {k} |-> f[x]]

MapSet(f, k, v) == (k :> v) @@ f

----------------------------------------------------------------------------
(* The WorkerPool object as a record, so that the private methods, which   *)
(* call one another, are operators from pool state to pool state.          *)

Pool ==
  [workers |-> workers, availableWorkers |-> availableWorkers, queue |-> queue,
   taskMap |-> taskMap, timers |-> timers, replaceTimers |-> replaceTimers,
   created |-> created, terminated |-> terminated, job |-> job,
   late |-> late, settled |-> settled]

EmptyPool(s) ==
  [workers |-> <<>>, availableWorkers |-> <<>>, queue |-> <<>>,
   taskMap |-> <<>>, timers |-> {}, replaceTimers |-> <<>>,
   created |-> 0, terminated |-> {}, job |-> {}, late |-> {}, settled |-> s]

\* task.resolve(..) / task.reject(..): one settlement of the task's promise
Settle(p, t, how) == [p EXCEPT !.settled[t] = Append(@, how)]

\* clearTimeout(task.timeout)
ClearTimeout(p, t) == [p EXCEPT !.timers = {x \in @ : x[2] # t}]

\* worker.terminate(): the worker stops.  If it held a task's data, its
\* answer may have been posted already and may still be delivered.
Terminate(p, w) ==
  [p EXCEPT !.terminated = @ \cup {w}, !.job = @ \ {w},
            !.late = IF w \in p.job THEN @ \cup {w} ELSE @]

\* worker.postMessage(task.data): a terminated worker receives nothing
PostMessage(p, w, t) ==
  IF w \in p.terminated THEN p ELSE [p EXCEPT !.job = @ \cup {w}]

\* createWorker(): a fresh Worker object; returns the pool with the new
\* identity counted, the identity being p.created + 1
createWorker(p) == [p EXCEPT !.created = @ + 1]

\* mutant of dispatchLoop: the newest queued task is taken
RECURSIVE dispatchLoop_lifo(_)
dispatchLoop_lifo(p) ==
  IF Len(p.availableWorkers) > 0 /\ Len(p.queue) > 0
  THEN LET worker == Head(p.availableWorkers)
           task == p.queue[Len(p.queue)]
           p1 == [p EXCEPT !.availableWorkers = Tail(@),
                           !.queue = SubSeq(@, 1, Len(@) - 1),
                           !.taskMap = MapSet(@, worker, task),
                           !.timers = @ \cup {<<worker, task>>}]
       IN dispatchLoop_lifo(PostMessage(p1, worker, task))
  ELSE p

\* the body of the while loop of dispatch()
RECURSIVE dispatchLoop(_)
dispatchLoop(p) ==
  IF Len(p.availableWorkers) > 0 /\ Len(p.queue) > 0
  THEN LET worker == Head(p.availableWorkers)
           task == Head(p.queue)
           p1 == [p EXCEPT !.availableWorkers = Tail(@), !.queue = Tail(@),
                           !.taskMap = MapSet(@, worker, task),
                           !.timers = @ \cup {<<worker, task>>}]
       IN dispatchLoop(PostMessage(p1, worker, task))
  ELSE p

\* mutant of dispatch: lazy creation without the test against the pool size
dispatch_noSizeCheck(p) ==
  LET p1 == IF Len(p.queue) > 0 /\ Len(p.availableWorkers) = 0
            THEN LET c == createWorker(p)
                 IN [c EXCEPT !.workers = Append(@, c.created),
                              !.availableWorkers = Append(@, c.created)]
            ELSE p
  IN dispatchLoop(p1)

dispatch(p) ==
  LET p1 == IF Len(p.queue) > 0 /\ Len(p.availableWorkers) = 0
               /\ Len(p.workers) < CONCURRENCY
            THEN LET c == createWorker(p)
                 IN [c EXCEPT !.workers = Append(@, c.created),
                              !.availableWorkers = Append(@, c.created)]
            ELSE p
  IN dispatchLoop(p1)

\* mutant of onmessage: the freed worker is not offered to the queue
onmessage_noDispatch(p, worker, type) ==
  IF worker \notin DOMAIN p.taskMap THEN p
  ELSE LET task == p.taskMap[worker]
           p1 == ClearTimeout(p, task)
           p2 == [p1 EXCEPT !.taskMap = MapDelete(@, worker),
                            !.availableWorkers = Append(@, worker)]
       IN IF type = "success" THEN Settle(p2, task, "resolved")
          ELSE IF type = "error" THEN Settle(p2, task, "error")
          ELSE p2

\* mutant of onmessage: the answered task's entry stays in the task map
onmessage_keepsBinding(p, worker, type) ==
  IF worker \notin DOMAIN p.taskMap THEN p
  ELSE LET task == p.taskMap[worker]
           p1 == ClearTimeout(p, task)
           p2 == [p1 EXCEPT !.availableWorkers = Append(@, worker)]
           p3 == IF type = "success" THEN Settle(p2, task, "resolved")
                 ELSE IF type = "error" THEN Settle(p2, task, "error")
                 ELSE p2
       IN dispatch(p3)

\* mutant of onmessage: the task's timer is not cancelled
onmessage_keepsTimer(p, worker, type) ==
  IF worker \notin DOMAIN p.taskMap THEN p
  ELSE LET task == p.taskMap[worker]
           p2 == [p EXCEPT !.taskMap = MapDelete(@, worker),
                           !.availableWorkers = Append(@, worker)]
           p3 == IF type = "success" THEN Settle(p2, task, "resolved")
                 ELSE IF type = "error" THEN Settle(p2, task, "error")
                 ELSE p2
       IN dispatch(p3)

\* worker.onmessage, type being e.data.type
onmessage(p, worker, type) ==
  IF worker \notin DOMAIN p.taskMap THEN p
  ELSE LET task == p.taskMap[worker]
           p1 == ClearTimeout(p, task)
           p2 == [p1 EXCEPT !.taskMap = MapDelete(@, worker),
                            !.availableWorkers = Append(@, worker)]
           p3 == IF type = "success" THEN Settle(p2, task, "resolved")
                 ELSE IF type = "error" THEN Settle(p2, task, "error")
                 ELSE p2
       IN dispatch(p3)

\* mutant of onerror: the faulted worker's entry stays in the task map
onerror_keepsEntry(p, worker) ==
  LET p1 == IF worker \in DOMAIN p.taskMap
            THEN LET task == p.taskMap[worker]
                 IN Settle(ClearTimeout(p, task), task, "fault")
            ELSE p
      n == IF worker \in DOMAIN p1.replaceTimers THEN p1.replaceTimers[worker] ELSE 0
  IN [p1 EXCEPT !.replaceTimers = MapSet(@, worker, n + 1)]

\* mutant of onerror: the faulted worker is handed back to the idle list
onerror_idles(p, worker) ==
  LET p1 == IF worker \in DOMAIN p.taskMap
            THEN LET task == p.taskMap[worker]
                 IN Settle([ClearTimeout(p, task) EXCEPT
                              !.taskMap = MapDelete(@, worker),
                              !.availableWorkers = Append(@, worker)],
                           task, "fault")
            ELSE p
      n == IF worker \in DOMAIN p1.replaceTimers THEN p1.replaceTimers[worker] ELSE 0
  IN [p1 EXCEPT !.replaceTimers = MapSet(@, worker, n + 1)]

\* worker.onerror: the synchronous part, and the arming of the timer
onerror(p, worker) ==
  LET p1 == IF worker \in DOMAIN p.taskMap
            THEN LET task == p.taskMap[worker]
                 IN Settle([ClearTimeout(p, task) EXCEPT
                              !.taskMap = MapDelete(@, worker)], task, "fault")
            ELSE p
      n == IF worker \in DOMAIN p1.replaceTimers THEN p1.replaceTimers[worker] ELSE 0
  IN [p1 EXCEPT !.replaceTimers = MapSet(@, worker, n + 1)]

replaceWorker(p, oldWorker) ==
  LET idx == IndexOf(p.workers, oldWorker)
  IN IF idx = 0 THEN p
     ELSE LET c == createWorker(Terminate(p, oldWorker))
          IN [c EXCEPT !.workers[idx] = c.created,
                       !.availableWorkers = Append(@, c.created)]

\* the callback of setTimeout(.., 1000) armed by onerror
replaceCallback(p, worker) == dispatch(replaceWorker(p, worker))

\* mutant of timeoutCallback: dispatch is not run again
timeoutCallback_noDispatch(p, worker, task) ==
  IF worker \notin DOMAIN p.taskMap \/ p.taskMap[worker] # task THEN p
  ELSE LET p1 == Settle([p EXCEPT !.taskMap = MapDelete(@, worker)], task, "timeout")
           p2 == Terminate(p1, worker)
           idx == IndexOf(p2.workers, worker)
       IN IF idx # 0 THEN [p2 EXCEPT !.workers = RemoveAt(@, idx)] ELSE p2

\* mutant of timeoutCallback: the terminated worker stays in the worker set
timeoutCallback_keepsWorker(p, worker, task) ==
  IF worker \notin DOMAIN p.taskMap \/ p.taskMap[worker] # task THEN p
  ELSE LET p1 == Settle([p EXCEPT !.taskMap = MapDelete(@, worker)], task, "timeout")
           p2 == Terminate(p1, worker)
       IN dispatch(p2)

\* the callback of the task timer armed by dispatch
timeoutCallback(p, worker, task) ==
  IF worker \notin DOMAIN p.taskMap \/ p.taskMap[worker] # task THEN p
  ELSE LET p1 == Settle([p EXCEPT !.taskMap = MapDelete(@, worker)], task, "timeout")
           p2 == Terminate(p1, worker)
           idx == IndexOf(p2.workers, worker)
           p3 == IF idx # 0 THEN [p2 EXCEPT !.workers = RemoveAt(@, idx)] ELSE p2
       IN dispatch(p3)

\* WorkerPool.exec past the queue-full test: the promise executor
exec(p, id) == dispatch([p EXCEPT !.queue = Append(@, id)])

RECURSIVE terminateAll(_, _)
terminateAll(p, ws) ==
  IF ws = {} THEN p
  ELSE LET w == CHOOSE x \in ws : TRUE IN terminateAll(Terminate(p, w), ws \ {w})

RECURSIVE rejectAll(_, _)
rejectAll(p, ts) ==
  IF ts = {} THEN p
  ELSE LET t == CHOOSE x \in ts : TRUE
       IN rejectAll(Settle(ClearTimeout(p, t), t, "shutdown"), ts \ {t})

\* mutant of shutdown: the in-flight tasks are not rejected
shutdown_skipsActive(p) ==
  LET p1 == terminateAll(p, Range(p.workers))
      p2 == rejectAll(p1, Range(p.queue))
  IN [p2 EXCEPT !.workers = <<>>, !.availableWorkers = <<>>, !.queue = <<>>,
                !.taskMap = <<>>]

shutdown(p) ==
  LET p1 == terminateAll(p, Range(p.workers))
      p2 == rejectAll(p1, Range(p.queue))
      p3 == rejectAll(p2, Range(p.taskMap))
  IN [p3 EXCEPT !.workers = <<>>, !.availableWorkers = <<>>, !.queue = <<>>,
                !.taskMap = <<>>]

----------------------------------------------------------------------------
(* LRUCache<T>: the Map   as the sequence of its entries in iteration      *)
(* order, an entry being [k, v, t, a] (key, value, created, last access)   *)

Keys == 1..MaxKeys
Values == 1..MaxValues

\* undefined
Absent == 0

NoCall ==
  [op |-> "none", k |-> Absent, arg |-> Absent, r |-> Absent, tag |-> "none"]

\* position of key k in the Map, 0 when the Map has no such key
Find(cs, k) ==
  IF \E i \in DOMAIN cs : cs[i].k = k
  THEN CHOOSE i \in DOMAIN cs : cs[i].k = k
  ELSE 0

\* this.c.delete(k)
Delete(cs, k) == IF Find(cs, k) = 0 THEN cs ELSE RemoveAt(cs, Find(cs, k))

\* now - e.t > this.ttl
Expired(e, n) == n - e.t > ttl

\* mutant of get: a hit refreshes e.a but leaves the entry where it is
get_noPromote(cs, k, n) ==
  LET i == Find(cs, k)
  IN IF i = 0 THEN [c |-> cs, r |-> Absent, tag |-> "miss"]
     ELSE IF Expired(cs[i], n)
     THEN [c |-> Delete(cs, k), r |-> Absent, tag |-> "expired"]
     ELSE [c |-> [cs EXCEPT ![i].a = n], r |-> cs[i].v, tag |-> "hit"]

\* mutant of get: a hit also renews the entry's creation time
get_renews(cs, k, n) ==
  LET i == Find(cs, k)
  IN IF i = 0 THEN [c |-> cs, r |-> Absent, tag |-> "miss"]
     ELSE IF Expired(cs[i], n)
     THEN [c |-> Delete(cs, k), r |-> Absent, tag |-> "expired"]
     ELSE LET e == [cs[i] EXCEPT !.a = n, !.t = n]
          IN [c |-> Append(Delete(cs, k), e), r |-> e.v, tag |-> "hit"]

\* LRUCache.get: [c, r, tag], the Map afterwards and the value returned
get(cs, k, n) ==
  LET i == Find(cs, k)
  IN IF i = 0 THEN [c |-> cs, r |-> Absent, tag |-> "miss"]
     ELSE IF Expired(cs[i], n)
     THEN [c |-> Delete(cs, k), r |-> Absent, tag |-> "expired"]
     ELSE LET e == [cs[i] EXCEPT !.a = n]
          IN [c |-> Append(Delete(cs, k), e), r |-> e.v, tag |-> "hit"]

\* mutant of set: an existing key is moved to the end with its old entry
set_keepsOld(cs, k, v, n) ==
  LET e == [k |-> k, v |-> v, t |-> n, a |-> n]
  IN IF Find(cs, k) # 0
     THEN [c |-> Append(Delete(cs, k), cs[Find(cs, k)]), r |-> Absent,
           tag |-> "overwrite"]
     ELSE IF Len(cs) >= maxSize
     THEN [c |-> Append(IF cs = <<>> THEN cs ELSE Tail(cs), e),
           r |-> Absent, tag |-> "evict"]
     ELSE [c |-> Append(cs, e), r |-> Absent, tag |-> "insert"]

\* mutant of set: the capacity test is off by one
set_offByOne(cs, k, v, n) ==
  LET e == [k |-> k, v |-> v, t |-> n, a |-> n]
  IN IF Find(cs, k) # 0
     THEN [c |-> Append(Delete(cs, k), e), r |-> Absent, tag |-> "overwrite"]
     ELSE IF Len(cs) > maxSize
     THEN [c |-> Append(Tail(cs), e), r |-> Absent, tag |-> "evict"]
     ELSE [c |-> Append(cs, e), r |-> Absent, tag |-> "insert"]

\* LRUCache.set: the Map afterwards (set returns nothing)
set(cs, k, v, n) ==
  LET e == [k |-> k, v |-> v, t |-> n, a |-> n]
  IN IF Find(cs, k) # 0
     THEN [c |-> Append(Delete(cs, k), e), r |-> Absent, tag |-> "overwrite"]
     ELSE IF Len(cs) >= maxSize
     THEN [c |-> Append(IF cs = <<>> THEN cs ELSE Tail(cs), e),
           r |-> Absent, tag |-> "evict"]
     ELSE [c |-> Append(cs, e), r |-> Absent, tag |-> "insert"]

\* mutant of has: an expired entry is reported absent but stays in the Map
has_keepsExpired(cs, k, n) ==
  LET i == Find(cs, k)
  IN IF i = 0 THEN [c |-> cs, r |-> FALSE, tag |-> "miss"]
     ELSE IF Expired(cs[i], n)
     THEN [c |-> cs, r |-> FALSE, tag |-> "expired"]
     ELSE [c |-> cs, r |-> TRUE, tag |-> "hit"]

\* LRUCache.has
has(cs, k, n) ==
  LET i == Find(cs, k)
  IN IF i = 0 THEN [c |-> cs, r |-> FALSE, tag |-> "miss"]
     ELSE IF Expired(cs[i], n)
     THEN [c |-> Delete(cs, k), r |-> FALSE, tag |-> "expired"]
     ELSE [c |-> cs, r |-> TRUE, tag |-> "hit"]

----------------------------------------------------------------------------
(* The preprocessed disk store: module state as a record, so that the      *)
(* functions, which call one another, are operators from state to state.   *)
(* A file-system call takes effect when its await resumes; the code up to  *)
(* the next file-system call runs in the same step.                        *)

Paths == 1..MaxPaths
Contents == 1..MaxContent
Slots == 1..MaxInFlight

\* no such file (ENOENT)
NoFile == [z |-> FALSE, body |-> Absent]

\* what TextDecoder makes of compressed bytes
Garbled == -1

\* zstdDecompress rejects bytes that are not compressed
Throws == -2

\* a slot without a call
NoCallIn ==
  [pc |-> "idle", op |-> "none", k |-> Absent, v |-> Absent, z |-> FALSE,
   live |-> FALSE, n |-> 0, todo |-> <<>>, pe |-> FALSE, doc |-> <<>>]

NoDiskCall == [op |-> "none", k |-> Absent, r |-> Absent, tag |-> "none"]

Disk ==
  [metadata |-> metadata, metaLoaded |-> metaLoaded, metaDirty |-> metaDirty,
   saveTimer |-> saveTimer, saveDoc |-> saveDoc, files |-> files,
   metaFile |-> metaFile, calls |-> calls, dret |-> NoDiskCall,
   written |-> written]

\* index of path k in metadata.processed, 0 when it has no such key
FindMeta(m, k) ==
  IF \E i \in DOMAIN m : m[i].k = k
  THEN CHOOSE i \in DOMAIN m : m[i].k = k
  ELSE 0

\* content.length > COMPRESSION_THRESHOLD
shouldCompress(content) == content > COMPRESSION_THRESHOLD

\* mutant of compressContent: the flag is not reported
compressContent_noFlag(content) ==
  [data |-> [z |-> shouldCompress(content), body |-> content],
   compressed |-> FALSE]

\* compressContent: the bytes written and the flag
compressContent(content) ==
  [data |-> [z |-> shouldCompress(content), body |-> content],
   compressed |-> shouldCompress(content)]

\* decompressContent: the text, or Throws
decompressContent(data, compressed) ==
  IF compressed
  THEN (IF data.z THEN data.body ELSE Throws)
  ELSE (IF data.z THEN Garbled ELSE data.body)

\* getFilePath(hash, compressed, PROCESSED_DIR, '_processed.js')
getFilePath(k, compressed) == <<k, compressed>>

\* unlinkFile: errors are swallowed
unlinkFile(d, path) == [d EXCEPT !.files[path] = NoFile]

\* scheduleSave
scheduleSave(d) ==
  IF d.saveTimer # "none" THEN d
  ELSE [d EXCEPT !.metaDirty = TRUE, !.saveTimer = "armed"]

\* the calls that hold the entry object of path k lose it
Detach(cs, k) ==
  [s \in DOMAIN cs |->
     IF cs[s].pc = "read" /\ cs[s].k = k THEN [cs[s] EXCEPT !.live = FALSE]
     ELSE cs[s]]

\* delete metadata.processed[k]
deleteMeta(d, k) ==
  LET i == FindMeta(d.metadata, k)
  IN IF i = 0 THEN d
     ELSE [d EXCEPT !.metadata = RemoveAt(@, i), !.calls = Detach(@, k)]

\* metadata.processed[k] = { t: n, a: n, compressed }
putMeta(d, k, n, compressed) ==
  LET i == FindMeta(d.metadata, k)
      e == [k |-> k, t |-> n, a |-> n, compressed |-> compressed]
  IN IF i = 0 THEN [d EXCEPT !.metadata = Append(@, e)]
     ELSE [d EXCEPT !.metadata[i] = e, !.calls = Detach(@, k)]

\* the call of slot s returns r
Return(d, s, r, tag) ==
  [d EXCEPT !.calls[s] = NoCallIn,
            !.dret = [op |-> d.calls[s].op, k |-> d.calls[s].k, r |-> r,
                      tag |-> tag]]

\* getPreprocessed after loadMeta, up to its file-system call
getPreprocessed(d, s, n) ==
  LET k == d.calls[s].k
      i == FindMeta(d.metadata, k)
  IN IF i = 0 THEN Return(d, s, Absent, "miss")
     ELSE IF n - d.metadata[i].t > CACHE_TTL
     THEN [d EXCEPT !.calls[s].pc = "unlink",
                    !.calls[s].z = d.metadata[i].compressed]
     ELSE [d EXCEPT !.calls[s].pc = "read",
                    !.calls[s].z = d.metadata[i].compressed,
                    !.calls[s].n = n,
                    !.calls[s].live = TRUE]

\* mutant of getUnlinked: the entry is dropped, the payload file stays
getUnlinked_keepsFile(d, s) ==
  Return(scheduleSave(deleteMeta(d, d.calls[s].k)), s, Absent, "expired")

\* getPreprocessed, the entry was expired: unlinkFile has resumed
getUnlinked(d, s) ==
  LET c == d.calls[s]
  IN Return(scheduleSave(deleteMeta(unlinkFile(d, getFilePath(c.k, c.z)),
                                    c.k)),
            s, Absent, "expired")

\* getPreprocessed: readFile has resumed (or thrown)
getRead(d, s) ==
  LET c == d.calls[s]
      data == d.files[getFilePath(c.k, c.z)]
      content == IF data = NoFile THEN Throws
                 ELSE decompressContent(data, c.z)
      i == FindMeta(d.metadata, c.k)
  IN IF content = Throws
     THEN Return(scheduleSave(deleteMeta(d, c.k)), s, Absent, "heal")
     ELSE Return(scheduleSave(IF c.live
                              THEN [d EXCEPT !.metadata[i].a = c.n]
                              ELSE d),
                 s, content, "hit")

\* mutant of lruKey: the entry created first is chosen
lruKey_oldest(m) ==
  IF m = <<>> THEN 0
  ELSE CHOOSE i \in DOMAIN m :
         /\ \A j \in DOMAIN m : m[i].t <= m[j].t
         /\ \A j \in 1..(i-1) : m[j].t > m[i].t

\* the scan of setPreprocessed: index of the first entry whose a is below
\* that of all entries before it and not above that of any entry
lruKey(m) ==
  IF m = <<>> THEN 0
  ELSE CHOOSE i \in DOMAIN m :
         /\ \A j \in DOMAIN m : m[i].a <= m[j].a
         /\ \A j \in 1..(i-1) : m[j].a > m[i].a

\* setPreprocessed after loadMeta, up to its first file-system call
setPreprocessed(d, s) ==
  LET k == d.calls[s].k
      i == lruKey(d.metadata)
  IN IF Len(d.metadata) >= DISK_CACHE_SIZE /\ FindMeta(d.metadata, k) = 0
        /\ i # 0
     THEN [d EXCEPT !.calls[s].pc = "evict",
                    !.calls[s].todo = <<[k |-> d.metadata[i].k,
                                         z |-> d.metadata[i].compressed]>>]
     ELSE [d EXCEPT !.calls[s].pc = "write"]

\* setPreprocessed: the unlinkFile of the evicted entry has resumed
setEvicted(d, s) ==
  LET e == d.calls[s].todo[1]
      d1 == deleteMeta(unlinkFile(d, getFilePath(e.k, e.z)), e.k)
  IN [d1 EXCEPT !.calls[s].pc = "write"]

\* setPreprocessed: writeFile has resumed
setWritten(d, s, n) ==
  LET c == d.calls[s]
      cc == compressContent(c.v)
      d1 == [d EXCEPT !.files[getFilePath(c.k, cc.compressed)] = cc.data]
  IN Return(scheduleSave(putMeta(d1, c.k, n, cc.compressed)),
            s, Absent, IF c.todo = <<>> THEN "set" ELSE "evict")


\* the end of cleanup: the document is written when a player file expired
cleanupEnd(d, s) ==
  IF d.calls[s].pe
  THEN [d EXCEPT !.metaDirty = TRUE,
                 !.calls[s].pc = "save",
                 !.calls[s].todo = <<>>,
                 !.calls[s].doc = d.metadata]
  ELSE Return(d, s, Absent, "swept")

\* cleanup, the loop over metadata.processed: the expired entries of the
\* snapshot taken by Object.entries, up to the first unlinkFile
cleanupScan(d, s) ==
  LET old(e) == d.calls[s].n - e.t > CACHE_TTL
      snap == SelectSeq(d.metadata, old)
      d1 == [d EXCEPT !.calls[s].pc = "sweep",
                      !.calls[s].todo =
                         [i \in DOMAIN snap |->
                            [k |-> snap[i].k, z |-> snap[i].compressed]]]
  IN IF snap = <<>> THEN cleanupEnd(d, s) ELSE d1

\* cleanup after loadMeta: the clock is read, then the expired player files
\* are unlinked (pe: there are some)
cleanup(d, s, n) ==
  LET d1 == [d EXCEPT !.calls[s].n = n]
  IN IF d.calls[s].pe THEN [d1 EXCEPT !.calls[s].pc = "players"]
     ELSE cleanupScan(d1, s)

\* cleanup: the unlinkFile of an expired entry has resumed
cleanupSwept(d, s) ==
  LET e == d.calls[s].todo[1]
      d1 == deleteMeta(unlinkFile(d, getFilePath(e.k, e.z)), e.k)
      d2 == [d1 EXCEPT !.calls[s].todo = Tail(@)]
  IN IF d2.calls[s].todo = <<>> THEN cleanupEnd(d2, s) ELSE d2

\* saveMeta called by cleanup: writeFile has resumed
cleanupSaved(d, s) ==
  Return([d EXCEPT !.metaFile = d.calls[s].doc, !.metaDirty = FALSE],
         s, Absent, "swept")

\* the body of the call of slot s, entered when loadMeta has returned
Body(d, s, n) ==
  CASE d.calls[s].op = "get" -> getPreprocessed(d, s, n)
    [] d.calls[s].op = "set" -> setPreprocessed(d, s)
    [] OTHER -> cleanup(d, s, n)

\* loadMeta: readFile has resumed (ENOENT gives the empty metadata); the
\* objects of the mirror are replaced
loadMeta(d, s, n) ==
  Body([d EXCEPT !.metadata = d.metaFile,
                 !.metaLoaded = TRUE,
                 !.calls = [x \in DOMAIN @ |-> [@[x] EXCEPT !.live = FALSE]]],
       s, n)

\* a call starts: loadMeta returns at once when metaLoaded is set
Begin(d, s, op, k, v, pe, n) ==
  LET d1 == [d EXCEPT !.calls[s] =
                        [NoCallIn EXCEPT !.pc = "load", !.op = op, !.k = k,
                                         !.v = v, !.pe = pe],
                      !.written = IF op = "set" THEN @ \cup {<<k, v>>}
                                  ELSE @]
  IN IF d.metaLoaded THEN Body(d1, s, n) ELSE d1

\* the callback of scheduleSave's timer, up to saveMeta's writeFile
saveTimerFired(d) ==
  IF d.metaDirty
  THEN [d EXCEPT !.saveTimer = "saving", !.saveDoc = d.metadata]
  ELSE [d EXCEPT !.saveTimer = "none"]

\* the callback of scheduleSave's timer: writeFile has resumed
saveMeta(d) ==
  [d EXCEPT !.metaFile = d.saveDoc, !.metaDirty = FALSE,
            !.saveTimer = "none", !.saveDoc = <<>>]

\* the process ends (the exit handler clears the timers) and starts again:
\* the module state is initial, the disk is as it was
exit(d) ==
  [d EXCEPT !.metadata = <<>>, !.metaLoaded = FALSE, !.metaDirty = FALSE,
            !.saveTimer = "none", !.saveDoc = <<>>,
            !.calls = [s \in Slots |-> NoCallIn]]

----------------------------------------------------------------------------
(* Player URLs (utils.ts).  A URL string is the sequence of its tokens: a  *)
(* scheme with its slashes, host names, "@", the path prefix /s/player/    *)
(* and "/".  Adjacent host tokens read as one host name.                   *)

Tokens == {"https://", "www.youtube.com", "evil.com", "@", "/s/player/",
           "/"}
Urls ==
  {u \in UNION {[1..n -> Tokens] : n \in 1..MaxUrl} :
     u[1] \in {"/s/player/", "/"} => Len(u) <= MaxRelUrl}

\* const HOSTS
HOSTS == {<<"youtube.com">>, <<"www.youtube.com">>, <<"m.youtube.com">>}

\* const PATH_PREFIX
PATH_PREFIX == "/s/player/"

\* the tokens that begin with "/"
SlashTokens == {"/s/player/", "/"}

\* validateUrl throws
Invalid == <<"invalid">>

\* the index of the first token of u at or after i that satisfies being in
\* set S, Len(u) + 1 when there is none
FirstIn(u, i, S) ==
  IF \E j \in i..Len(u) : u[j] \in S
  THEN CHOOSE j \in i..Len(u) : u[j] \in S /\ \A l \in i..(j-1) : u[l] \notin S
  ELSE Len(u) + 1

\* new URL(u): [ok, hostname, pathname], ok FALSE when it throws.  The
\* authority runs from the scheme to the first "/"; the host name is what
\* follows its last "@"
ParseUrl(u) ==
  LET end == FirstIn(u, 2, SlashTokens \cup {"https://"})
      auth == SubSeq(u, 2, end - 1)
      ats == {i \in DOMAIN auth : auth[i] = "@"}
      lastAt == IF ats = {} THEN 0
                ELSE CHOOSE i \in ats : \A j \in ats : j <= i
      host == SubSeq(auth, lastAt + 1, Len(auth))
                \o (IF end <= Len(u) /\ u[end] = "https://"
                    THEN <<"https">> ELSE <<>>)
  IN [ok |-> u # <<>> /\ u[1] = "https://" /\ host # <<>>,
      hostname |-> host,
      pathname |-> SubSeq(u, end, Len(u))]

\* mutant of validateUrl: the host of an absolute URL is not tested
validateUrl_anyHost(url) ==
  IF url[1] \in SlashTokens
  THEN IF url[1] = PATH_PREFIX
       THEN <<"https://", "www.youtube.com">> \o url
       ELSE Invalid
  ELSE IF ~ParseUrl(url).ok THEN Invalid ELSE url

\* validateUrl: the normalized URL, or Invalid when it throws
validateUrl(url) ==
  IF url[1] \in SlashTokens
  THEN IF url[1] = PATH_PREFIX
       THEN <<"https://", "www.youtube.com">> \o url
       ELSE Invalid
  ELSE LET parsed == ParseUrl(url)
       IN IF ~parsed.ok THEN Invalid
          ELSE IF parsed.hostname \in HOSTS THEN url
          ELSE Invalid

\* the inputs that may be resolved: an absolute URL whose host name is one
\* of HOSTS, or a relative one under PATH_PREFIX (recorded with each call)
Allowed(url) ==
  IF url[1] \in SlashTokens THEN url[1] = PATH_PREFIX
  ELSE ParseUrl(url).ok /\ ParseUrl(url).hostname \in HOSTS

\* extractPlayerId: the path segment after "player" (the tokens up to the
\* next slash; the scheme token gives "https:" and two slashes), or
\* "unknown"
extractPlayerId(playerUrl) ==
  LET path == ParseUrl(playerUrl).pathname
      i == FirstIn(path, 1, {PATH_PREFIX})
      end == FirstIn(path, i + 1, SlashTokens \cup {"https://"})
  IN IF i > Len(path) THEN <<"unknown">>
     ELSE SubSeq(path, i + 1, end - 1)
            \o (IF end <= Len(path) /\ path[end] = "https://"
                THEN <<"https:">> ELSE <<>>)

\* the hash of getPlayerFilePath: the player id, or the SHA-256 of the URL
HashOf(normalizedUrl) ==
  LET playerId == extractPlayerId(normalizedUrl)
  IN IF playerId # <<"unknown">> THEN <<"id">> \o playerId
     ELSE <<"sha">> \o normalizedUrl

----------------------------------------------------------------------------
(* The player store (getPlayerFilePath of the cache manager).  Calls do    *)
(* not overlap; as in the disk store each await of a file-system or        *)
(* network call is one step.                                               *)

\* getPlayerFilePath threw
Threw == <<"threw">>

\* no call in progress
NoPlayerCallIn ==
  [pc |-> "idle", allowed |-> FALSE, nurl |-> <<>>, h |-> <<>>, n |-> 0,
   z |-> FALSE, content |-> Absent, fetches |-> 0, target |-> <<>>]

NoPlayerCall ==
  [allowed |-> FALSE, h |-> <<>>, r |-> <<>>, tag |-> "none", fetches |-> 0,
   target |-> <<>>]

PlayerStore ==
  [players |-> players, pfiles |-> pfiles, pcall |-> pcall,
   pret |-> NoPlayerCall, metaLoaded |-> metaLoaded,
   metaDirty |-> metaDirty, saveTimer |-> saveTimer]

\* join(CACHE_DIR, `${hash}.js`)
baseFilePath(h) == <<"player_cache">> \o h

\* the call ends: it returns r (Threw when it throws)
PlayerReturn(d, r, tag) ==
  [d EXCEPT !.pret = [allowed |-> d.pcall.allowed, h |-> d.pcall.h,
                      r |-> r, tag |-> tag, fetches |-> d.pcall.fetches,
                      target |-> d.pcall.target],
            !.pcall = NoPlayerCallIn]

\* mutant of Fresh: the entry is fresh for one time unit less
Fresh_offByOne(e, n) == n - e.t < PLAYER_TTL

\* now - metadata.players[hash].t <= PLAYER_TTL
Fresh(e, n) == n - e.t <= PLAYER_TTL

\* getPlayerFilePath after loadMeta: the test of the entry
playerLookup(d) ==
  LET c == d.pcall
  IN IF c.h \in DOMAIN d.players
     THEN LET d1 == [d EXCEPT !.players[c.h].a = c.n,
                              !.pcall.z = d.players[c.h].compressed]
          IN IF Fresh(d.players[c.h], c.n)
             THEN [d1 EXCEPT !.pcall.pc = "access"]
             ELSE [d1 EXCEPT !.pcall.pc = "unlink"]
     ELSE [d EXCEPT !.pcall.pc = "fetch"]

\* loadMeta of the first call: readFile has resumed (ENOENT, no document
\* has been written before the first load)
playerLoadMeta(d) ==
  playerLookup([d EXCEPT !.players = <<>>, !.metaLoaded = TRUE])

\* getPlayerFilePath(url) up to its first await
getPlayerFilePath(d, url, n) ==
  LET nurl == validateUrl(url)
      d1 == [d EXCEPT !.pcall =
                        [NoPlayerCallIn EXCEPT !.allowed = Allowed(url)]]
  IN IF nurl = Invalid THEN PlayerReturn(d1, Threw, "invalid")
     ELSE LET d2 == [d1 EXCEPT !.pcall.nurl = nurl, !.pcall.h = HashOf(nurl),
                               !.pcall.n = n, !.pcall.pc = "load"]
          IN IF d.metaLoaded THEN playerLookup(d2) ELSE d2

\* fs.access has resumed: the path is returned when the file is there
playerAccessed(d) ==
  LET c == d.pcall
  IN IF <<c.h, c.z>> \in DOMAIN d.pfiles
     THEN PlayerReturn(scheduleSave(d), baseFilePath(c.h), "cached")
     ELSE [d EXCEPT !.players = MapDelete(@, c.h), !.pcall.pc = "fetch"]

\* unlinkFile of an expired entry's file has resumed
playerUnlinked(d) ==
  LET c == d.pcall
  IN [d EXCEPT !.pfiles = MapDelete(@, <<c.h, c.z>>),
               !.players = MapDelete(@, c.h),
               !.pcall.pc = "fetch"]

\* mutant of playerFetched: the entry is stored before the response is
\* tested
playerFetched_storesFailure(d, ok, content) ==
  LET c == d.pcall
      e == [url |-> c.nurl, t |-> c.n, a |-> c.n, compressed |-> FALSE]
      d1 == [d EXCEPT !.pcall.fetches = @ + 1,
                      !.pcall.target = d.pcall.nurl,
                      !.players = MapSet(@, c.h, e)]
  IN IF ~ok THEN PlayerReturn(d1, Threw, "failed")
     ELSE [d1 EXCEPT !.pcall.content = content, !.pcall.pc = "write"]

\* fetch has resumed with res.ok = ok; res.text() gives content
playerFetched(d, ok, content) ==
  LET d1 == [d EXCEPT !.pcall.fetches = @ + 1,
                      !.pcall.target = d.pcall.nurl]
  IN IF ~ok THEN PlayerReturn(d1, Threw, "failed")
     ELSE [d1 EXCEPT !.pcall.content = content, !.pcall.pc = "write"]

\* fs.writeFile has resumed: the entry is stored
playerWritten(d) ==
  LET c == d.pcall
      out == compressContent(c.content)
      e == [url |-> c.nurl, t |-> c.n, a |-> c.n,
            compressed |-> out.compressed]
      d1 == [d EXCEPT !.pfiles = MapSet(@, <<c.h, out.compressed>>, out.data),
                      !.players = MapSet(@, c.h, e)]
  IN PlayerReturn(scheduleSave(d1), baseFilePath(c.h), "fetched")

\* the players part of cleanup, between two calls: the files of the
\* expired entries are unlinked, the entries deleted and the document saved
cleanupPlayers(d, n) ==
  LET toDelete == {h \in DOMAIN d.players : n - d.players[h].t > PLAYER_TTL}
      gone == {<<h, d.players[h].compressed>> : h \in toDelete}
  IN IF toDelete = {} THEN [d EXCEPT !.metaLoaded = TRUE]
     ELSE [d EXCEPT !.pfiles = [f \in DOMAIN @ \ gone |-> @[f]],
                    !.players = [h \in DOMAIN @ \ toDelete |-> @[h]],
                    !.metaLoaded = TRUE, !.metaDirty = FALSE]

----------------------------------------------------------------------------
(* Initial state: the module is loaded, no pool has been created           *)

InitCore ==
  /\ pool = FALSE
  /\ taskIdCounter = 0
  /\ workers = <<>>
  /\ availableWorkers = <<>>
  /\ queue = <<>>
  /\ taskMap = <<>>
  /\ timers = {}
  /\ replaceTimers = <<>>
  /\ created = 0
  /\ terminated = {}
  /\ job = {}
  /\ late = {}
  /\ settled = [t \in Tasks |-> <<>>]
  /\ faults = 0
  /\ res = "none"
  /\ cache = <<>>
  /\ now = 0
  /\ ret = NoCall
  /\ metadata = <<>>
  /\ metaLoaded = FALSE
  /\ metaDirty = FALSE
  /\ saveTimer = "none"
  /\ saveDoc = <<>>
  /\ files = [f \in Paths \X BOOLEAN |-> NoFile]
  /\ metaFile = <<>>
  /\ calls = [s \in Slots |-> NoCallIn]
  /\ dret = NoDiskCall
  /\ written = {}
  /\ ncalls = 0
  /\ exits = 0

\* no request has been made
InitPlayer ==
  /\ players = <<>>
  /\ pfiles = <<>>
  /\ pcall = NoPlayerCallIn
  /\ pret = NoPlayerCall
  /\ npcalls = 0

\* encrypted_signature, n_param of a request: absent or a challenge
ReqStr == {<<>>, <<"a">>}

\* no entry in contentCache or in the processed store
NoHeld == [v |-> Absent, t |-> 0]

NoBody == [player_url |-> FALSE, encrypted_signature |-> <<>>, n_param |-> <<>>]
NoInput == [type |-> "none", content |-> Absent]

\* no request in progress
NoRequest == [pc |-> "idle", body |-> NoBody, input |-> NoInput]

\* the pair has not been computed
NoAnswer == [t |-> -1, decrypted_signature |-> <<>>, decrypted_n_sig |-> <<>>]

\* no request has been answered
NoResponse ==
  [status |-> 0, decrypted_signature |-> <<>>, decrypted_n_sig |-> <<>>,
   body |-> NoBody, path |-> "none", hit |-> FALSE, tasks |-> 0,
   input |-> NoInput, pool |-> "none", faults |-> {}]

\* no request has been received
InitHandler ==
  /\ hstore = [pre |-> NoHeld, content |-> NoHeld]
  /\ answered = [p \in ReqStr \X ReqStr |-> NoAnswer]
  /\ hret = NoResponse
  /\ nreq = 0
  /\ reqs = [r \in Slots |-> NoRequest]

InitApp ==
  /\ keyIn = <<>>
  /\ keyOut = <<>>
  /\ InitPlayer
  /\ InitHandler

Init == InitCore /\ InitApp

\* the pool's fields take the values of the record r
Commit(r) ==
  /\ workers' = r.workers
  /\ availableWorkers' = r.availableWorkers
  /\ queue' = r.queue
  /\ taskMap' = r.taskMap
  /\ timers' = r.timers
  /\ replaceTimers' = r.replaceTimers
  /\ created' = r.created
  /\ terminated' = r.terminated
  /\ job' = r.job
  /\ late' = r.late
  /\ settled' = r.settled

poolFields == <<workers, availableWorkers, queue, taskMap, timers,
                replaceTimers, created, terminated, job, late, settled>>

----------------------------------------------------------------------------
(* The module's API *)

\* initWorkers(): a new WorkerPool when there is none
initWorkers ==
  /\ UNCHANGED <<cacheVars, diskVars, appVars>>
  /\ IF ~pool
     THEN /\ pool' = TRUE
          /\ Commit(EmptyPool(settled))
          /\ res' = "init"
          /\ UNCHANGED <<taskIdCounter, faults>>
     ELSE /\ res' = "init_noop"
          /\ UNCHANGED <<pool, taskIdCounter, poolFields, faults>>

\* mutant of execInPool: the queue-full test is off by one
execInPool_offByOne ==
  /\ UNCHANGED <<cacheVars, diskVars, appVars>>
  /\ IF ~pool
     THEN /\ res' = "threw"
          /\ UNCHANGED <<pool, taskIdCounter, poolFields, faults>>
     ELSE IF Len(queue) > MAX_QUEUE_SIZE
     THEN /\ res' = "full"
          /\ UNCHANGED <<pool, taskIdCounter, poolFields, faults>>
     ELSE /\ taskIdCounter < MaxTasks
          /\ taskIdCounter' = taskIdCounter + 1
          /\ Commit(exec(Pool, taskIdCounter + 1))
          /\ res' = "accepted"
          /\ UNCHANGED <<pool, faults>>

\* execInPool(data), with WorkerPool.exec
execInPool ==
  /\ UNCHANGED <<cacheVars, diskVars, appVars>>
  /\ IF ~pool
     THEN /\ res' = "threw"
          /\ UNCHANGED <<pool, taskIdCounter, poolFields, faults>>
     ELSE IF Len(queue) >= MAX_QUEUE_SIZE
     THEN /\ res' = "full"
          /\ UNCHANGED <<pool, taskIdCounter, poolFields, faults>>
     ELSE /\ taskIdCounter < MaxTasks
          /\ taskIdCounter' = taskIdCounter + 1
          /\ Commit(exec(Pool, taskIdCounter + 1))
          /\ res' = "accepted"
          /\ UNCHANGED <<pool, faults>>

\* the events still pending for a pool that was shut down (late messages,
\* replacement timers) act on the discarded object only, whose collections
\* stay empty: they change nothing and are dropped with the object
Discard(p) == [p EXCEPT !.late = {}, !.replaceTimers = <<>>]

\* mutant of shutdownWorkers: the module keeps its reference to the pool
shutdownWorkers_keepsPool ==
  /\ UNCHANGED <<cacheVars, diskVars, appVars>>
  /\ IF pool
     THEN /\ Commit(Discard(shutdown(Pool)))
          /\ res' = "shutdown"
          /\ UNCHANGED <<pool, taskIdCounter, faults>>
     ELSE /\ res' = "shutdown_noop"
          /\ UNCHANGED <<pool, taskIdCounter, poolFields, faults>>

\* shutdownWorkers()
shutdownWorkers ==
  /\ UNCHANGED <<cacheVars, diskVars, appVars>>
  /\ IF pool
     THEN /\ Commit(Discard(shutdown(Pool)))
          /\ pool' = FALSE
          /\ res' = "shutdown"
          /\ UNCHANGED <<taskIdCounter, faults>>
     ELSE /\ res' = "shutdown_noop"
          /\ UNCHANGED <<pool, taskIdCounter, poolFields, faults>>

----------------------------------------------------------------------------
(* The workers (src/worker.ts) and the event loop *)

\* self.onmessage of worker.ts answers the task the worker holds with
\* postMessage({type: 'success'..}) or postMessage({type: 'error'..}), and
\* the pool's worker.onmessage handles that message
WorkerAnswer(w) ==
  /\ UNCHANGED <<cacheVars, diskVars, appVars>>
  /\ w \in job
  /\ \E type \in {"success", "error"} :
       Commit(onmessage([Pool EXCEPT !.job = @ \ {w}], w, type))
  /\ res' = "none"
  /\ UNCHANGED <<pool, taskIdCounter, faults>>

\* the message a worker posted before it was terminated is delivered late
LateMessage(w) ==
  /\ UNCHANGED <<cacheVars, diskVars, appVars>>
  /\ w \in late
  /\ \E type \in {"success", "error"} :
       Commit(onmessage([Pool EXCEPT !.late = @ \ {w}], w, type))
  /\ res' = "none"
  /\ UNCHANGED <<pool, taskIdCounter, faults>>

\* an error event of worker w is handled (worker-level fault)
Fault(w) ==
  /\ UNCHANGED <<cacheVars, diskVars, appVars>>
  /\ w \in 1..created
  /\ faults < MaxFaults
  /\ faults' = faults + 1
  /\ Commit(onerror(Pool, w))
  /\ res' = "none"
  /\ UNCHANGED <<pool, taskIdCounter>>

\* a replacement timer armed by onerror fires
ReplaceTimer(w) ==
  /\ UNCHANGED <<cacheVars, diskVars, appVars>>
  /\ w \in DOMAIN replaceTimers
  /\ LET n == replaceTimers[w]
         p == [Pool EXCEPT !.replaceTimers =
                 IF n = 1 THEN MapDelete(@, w) ELSE MapSet(@, w, n - 1)]
     IN Commit(replaceCallback(p, w))
  /\ res' = "none"
  /\ UNCHANGED <<pool, taskIdCounter, faults>>

\* a task timer fires, TIMEOUT ms after dispatch bound task t to worker w
Timeout(w, t) ==
  /\ UNCHANGED <<cacheVars, diskVars, appVars>>
  /\ <<w, t>> \in timers
  /\ Commit(timeoutCallback([Pool EXCEPT !.timers = @ \ {<<w, t>>}], w, t))
  /\ res' = "none"
  /\ UNCHANGED <<pool, taskIdCounter, faults>>

Next ==
  \/ initWorkers
  \/ execInPool
  \/ shutdownWorkers
  \/ \E w \in 1..created : WorkerAnswer(w)
  \/ \E w \in 1..created : LateMessage(w)
  \/ \E w \in 1..created : Fault(w)
  \/ \E w \in 1..created : ReplaceTimer(w)
  \/ \E w \in 1..created, t \in Tasks : Timeout(w, t)

Spec == Init /\ [][Next]_vars

----------------------------------------------------------------------------
(* The memory cache in use: calls of get, set and has, and the clock *)

Call(op, k, v, out) ==
  /\ cache' = out.c
  /\ ret' = [op |-> op, k |-> k, arg |-> v, r |-> out.r, tag |-> out.tag]
  /\ UNCHANGED <<now, poolVars, diskVars, appVars>>

Get(k) == Call("get", k, Absent, get(cache, k, now))

Set(k, v) == Call("set", k, v, set(cache, k, v, now))

Has(k) == Call("has", k, Absent, has(cache, k, now))

\* time passes between two calls
Tick ==
  /\ now < MaxTime
  /\ now' = now + 1
  /\ ret' = NoCall
  /\ UNCHANGED <<cache, poolVars, diskVars, appVars>>

NextLRU ==
  \/ \E k \in Keys : Get(k)
  \/ \E k \in Keys, v \in Values : Set(k, v)
  \/ \E k \in Keys : Has(k)
  \/ Tick

SpecLRU == Init /\ [][NextLRU]_vars

----------------------------------------------------------------------------
(* The pool under assumptions on its workers *)

\* Worker identities are handed out in order: a pool that serves MaxTasks
\* tasks and handles MaxFaults error events constructs no more than this
WorkerIds == 1..(CONCURRENCY + MaxTasks + MaxFaults)

\* The pool while its workers stay healthy: no error event, no shutdown.
\* A task timer may still fire before the worker has answered.
NextServe ==
  \/ initWorkers
  \/ execInPool
  \/ \E w \in 1..created : WorkerAnswer(w)
  \/ \E w \in 1..created : LateMessage(w)
  \/ \E w \in 1..created, t \in Tasks : Timeout(w, t)

\* every worker answers each task it is sent (worker.ts always posts a
\* message); nothing is assumed about the timers
SpecServe ==
  /\ Init
  /\ [][NextServe]_vars
  /\ \A w \in WorkerIds : WF_vars(WorkerAnswer(w))

\* the callbacks of setTimeout run: a replacement timer that stays armed
\* fires (nothing is assumed about the workers or the task timers)
SpecReplace ==
  /\ Init
  /\ [][Next]_vars
  /\ WF_vars(\E w \in WorkerIds : ReplaceTimer(w))

----------------------------------------------------------------------------
(* The disk store in use: calls start, and resume at their file-system     *)
(* calls in any order; the save timer fires; the clock advances            *)

\* the module state takes the values of the record r
DiskCommit(r) ==
  /\ metadata' = r.metadata
  /\ metaLoaded' = r.metaLoaded
  /\ metaDirty' = r.metaDirty
  /\ saveTimer' = r.saveTimer
  /\ saveDoc' = r.saveDoc
  /\ files' = r.files
  /\ metaFile' = r.metaFile
  /\ calls' = r.calls
  /\ dret' = r.dret
  /\ written' = r.written
  /\ UNCHANGED <<poolVars, appVars, cacheVars, exits>>

\* slot s is free and the call is one of the first max calls
Idle(s, max) ==
  /\ calls[s].pc = "idle"
  /\ ncalls < max
  /\ ncalls' = ncalls + 1

\* the call of slot s is suspended at pc and resumes
At(s, pc) == calls[s].pc = pc /\ UNCHANGED ncalls

GetPreprocessed(s, k, max) ==
  /\ Idle(s, max)
  /\ DiskCommit(Begin(Disk, s, "get", k, Absent, FALSE, now))

SetPreprocessed(s, k, v, max) ==
  /\ Idle(s, max)
  /\ DiskCommit(Begin(Disk, s, "set", k, v, FALSE, now))

\* the hourly sweep (initCaches runs the same function)
Cleanup(s, pe, max) ==
  /\ Idle(s, max)
  /\ DiskCommit(Begin(Disk, s, "cleanup", Absent, Absent, pe, now))

LoadMeta(s) == At(s, "load") /\ DiskCommit(loadMeta(Disk, s, now))

GetUnlinked(s) == At(s, "unlink") /\ DiskCommit(getUnlinked(Disk, s))

GetRead(s) == At(s, "read") /\ DiskCommit(getRead(Disk, s))

SetEvicted(s) == At(s, "evict") /\ DiskCommit(setEvicted(Disk, s))

SetWritten(s) == At(s, "write") /\ DiskCommit(setWritten(Disk, s, now))

CleanupPlayers(s) == At(s, "players") /\ DiskCommit(cleanupScan(Disk, s))

CleanupSwept(s) == At(s, "sweep") /\ DiskCommit(cleanupSwept(Disk, s))

CleanupSaved(s) == At(s, "save") /\ DiskCommit(cleanupSaved(Disk, s))

SaveTimerFired ==
  saveTimer = "armed" /\ DiskCommit(saveTimerFired(Disk)) /\ UNCHANGED ncalls

SaveMeta ==
  saveTimer = "saving" /\ DiskCommit(saveMeta(Disk)) /\ UNCHANGED ncalls

\* no call is in progress
Quiescent == \A s \in Slots : calls[s].pc = "idle"

\* time passes, in units that are long against a file-system call and
\* against META_SAVE_DELAY: no call is suspended and no save is pending
DiskTick ==
  /\ Quiescent
  /\ saveTimer = "none"
  /\ now < MaxTime
  /\ now' = now + 1
  /\ dret' = NoDiskCall
  /\ UNCHANGED <<poolVars, appVars, cache, ret, metadata, metaLoaded, metaDirty,
                 saveTimer, saveDoc, files, metaFile, calls, written,
                 ncalls, exits>>

Exit ==
  /\ exits < MaxExits
  /\ exits' = exits + 1
  /\ LET r == exit(Disk)
     IN /\ metadata' = r.metadata
        /\ metaLoaded' = r.metaLoaded
        /\ metaDirty' = r.metaDirty
        /\ saveTimer' = r.saveTimer
        /\ saveDoc' = r.saveDoc
        /\ calls' = r.calls
        /\ dret' = r.dret
  /\ UNCHANGED <<poolVars, appVars, cacheVars, files, metaFile, written, ncalls>>

\* a step of a call in progress, or of the save timer
Resume ==
  \/ \E s \in Slots : LoadMeta(s)
  \/ \E s \in Slots : GetUnlinked(s)
  \/ \E s \in Slots : GetRead(s)
  \/ \E s \in Slots : SetEvicted(s)
  \/ \E s \in Slots : SetWritten(s)
  \/ \E s \in Slots : CleanupPlayers(s)
  \/ \E s \in Slots : CleanupSwept(s)
  \/ \E s \in Slots : CleanupSaved(s)
  \/ SaveTimerFired
  \/ SaveMeta
  \/ DiskTick

\* calls made one after the other
NextDiskSeq ==
  \/ \E k \in Paths : Quiescent /\ GetPreprocessed(1, k, MaxCalls)
  \/ \E k \in Paths, v \in Contents :
       Quiescent /\ SetPreprocessed(1, k, v, MaxCalls)
  \/ \E pe \in BOOLEAN : Quiescent /\ Cleanup(1, pe, MaxCalls)
  \/ Resume

SpecDiskSeq == Init /\ [][NextDiskSeq]_vars

\* calls made one after the other, by a process that may end and restart
NextDiskExit ==
  \/ NextDiskSeq
  \/ Exit

SpecDiskExit == Init /\ [][NextDiskExit]_vars

\* calls made while others are in progress
NextDisk ==
  \/ \E s \in Slots, k \in Paths : GetPreprocessed(s, k, MaxRaces)
  \/ \E s \in Slots, k \in Paths, v \in Contents :
       SetPreprocessed(s, k, v, MaxRaces)
  \/ \E s \in Slots, pe \in BOOLEAN : Cleanup(s, pe, MaxRaces)
  \/ Resume

SpecDisk == Init /\ [][NextDisk]_vars

----------------------------------------------------------------------------
(* The player store's events *)

PlayerCommit(r) ==
  /\ players' = r.players
  /\ pfiles' = r.pfiles
  /\ pcall' = r.pcall
  /\ pret' = r.pret
  /\ metaLoaded' = r.metaLoaded
  /\ metaDirty' = r.metaDirty
  /\ saveTimer' = r.saveTimer
  /\ UNCHANGED <<poolVars, cacheVars, keyIn, keyOut, handlerVars, metadata,
                 saveDoc,
                 files, metaFile, calls, dret, written, ncalls, exits>>

PlayerAt(pc) == pcall.pc = pc /\ UNCHANGED npcalls

\* a request calls getPlayerFilePath(url)
GetPlayerFilePath(url) ==
  /\ pcall.pc = "idle"
  /\ npcalls < MaxPlayerCalls
  /\ npcalls' = npcalls + 1
  /\ PlayerCommit(getPlayerFilePath(PlayerStore, url, now))

PlayerLoadMeta == PlayerAt("load") /\ PlayerCommit(playerLoadMeta(PlayerStore))

PlayerAccessed == PlayerAt("access") /\ PlayerCommit(playerAccessed(PlayerStore))

PlayerUnlinked == PlayerAt("unlink") /\ PlayerCommit(playerUnlinked(PlayerStore))

PlayerFetched ==
  /\ PlayerAt("fetch")
  /\ \E ok \in BOOLEAN, content \in Contents :
       PlayerCommit(playerFetched(PlayerStore, ok, content))

PlayerWritten == PlayerAt("write") /\ PlayerCommit(playerWritten(PlayerStore))

\* the hourly sweep, between two calls
SweepPlayers ==
  /\ PlayerAt("idle")
  /\ \E h \in DOMAIN players : now - players[h].t > PLAYER_TTL
  /\ PlayerCommit(cleanupPlayers(PlayerStore, now))

\* a player file disappears from CACHE_DIR (removed from outside)
FileLost ==
  /\ pcall.pc = "idle"
  /\ \E f \in DOMAIN pfiles : pfiles' = MapDelete(pfiles, f)
  /\ pret' = NoPlayerCall
  /\ UNCHANGED <<poolVars, cacheVars, diskVars, keyIn, keyOut, handlerVars,
                 players,
                 pcall, npcalls>>

\* time passes between two calls
PlayerTick ==
  /\ pcall.pc = "idle"
  /\ saveTimer = "none"
  /\ now < MaxTime
  /\ now' = now + 1
  /\ pret' = NoPlayerCall
  /\ UNCHANGED <<poolVars, cache, ret, diskVars, keyIn, keyOut, handlerVars,
                 players,
                 pfiles, pcall, npcalls>>

NextPlayer ==
  \/ \E url \in Urls : GetPlayerFilePath(url)
  \/ PlayerLoadMeta
  \/ PlayerAccessed
  \/ PlayerUnlinked
  \/ PlayerFetched
  \/ PlayerWritten
  \/ SweepPlayers
  \/ FileLost
  \/ PlayerTick
  \/ SaveTimerFired
  \/ SaveMeta

SpecPlayer == Init /\ [][NextPlayer]_vars

----------------------------------------------------------------------------
(* The request strings and the signature result key                        *)
(* (handlers/decryptSignature.ts).  A string is the sequence of its        *)
(* characters; ":" and "|" are the characters the handler joins with.      *)

Alphabet == {"a", ":", "|"}
Str == UNION {[1..n -> Alphabet] : n \in 0..MaxStr}

\* the local paths getPlayerFilePath returns: join(CACHE_DIR, `${hash}.js`)
LocalPaths == {<<"p">>, <<"q">>}

\* _key: `${path}:${sig}:${n}`
_key(path, sig, n) == path \o <<":">> \o sig \o <<":">> \o n

\* the (path, encrypted_signature || "", n_param || "") of a request
Triples == LocalPaths \X Str \X Str

\* two requests arrive
InitKey ==
  /\ InitCore
  /\ InitPlayer
  /\ InitHandler
  /\ keyIn \in Triples \X Triples
  /\ keyOut = <<>>

\* the handler builds the key of each
MakeKeys ==
  /\ keyOut = <<>>
  /\ keyOut' = <<_key(keyIn[1][1], keyIn[1][2], keyIn[1][3]),
                 _key(keyIn[2][1], keyIn[2][2], keyIn[2][3])>>
  /\ UNCHANGED <<poolVars, cacheVars, diskVars, keyIn, playerVars,
                 handlerVars>>

NextKey == MakeKeys

SpecKey == InitKey /\ [][NextKey]_vars

----------------------------------------------------------------------------
(* The content key of a player URL as a pure function: the first          *)
(* statements of getPlayerFilePath, for two URLs that passed validateUrl   *)

\* the player URLs that validateUrl accepts
PlayerUrls ==
  {u \in UNION {[1..n -> Tokens] : n \in 1..MaxKeyUrl} :
     validateUrl(u) # Invalid}

\* normalizedUrl and hash of getPlayerFilePath(url)
ContentKey(url) ==
  [url |-> validateUrl(url), hash |-> HashOf(validateUrl(url))]

\* two requests name their player
InitHash ==
  /\ InitCore
  /\ InitPlayer
  /\ InitHandler
  /\ keyIn \in PlayerUrls \X PlayerUrls
  /\ keyOut = <<>>

\* getPlayerFilePath computes the content key of each
MakeHashes ==
  /\ keyOut = <<>>
  /\ keyOut' = <<ContentKey(keyIn[1]), ContentKey(keyIn[2])>>
  /\ UNCHANGED <<poolVars, cacheVars, diskVars, keyIn, playerVars,
                 handlerVars>>

NextHash == MakeHashes

SpecHash == InitHash /\ [][NextHash]_vars

----------------------------------------------------------------------------
(* The decrypt-signature handler (handlers/decryptSignature.ts under the   *)
(* try/catch of server.ts).  Requests are handled one after the other, a   *)
(* request is one step.  The collaborators are taken by the ways their     *)
(* calls end: getPlayerFilePath returns the path or throws, a read or a    *)
(* write of the cache directory succeeds or fails, execInPool resolves     *)
(* with what worker.ts posts or rejects.  sigCache is the LRUCache `cache`,*)
(* contentCache and the processed store hold what belongs to the path.     *)

\* the path getPlayerFilePath returns for the player of the requests
HandlerPath == <<"p">>

\* the player script in the file of HandlerPath
PlayerScript == MaxContent + 1

\* the request bodies; player_url is present or not (the strings of a body
\* without player_url are not read)
Bodies ==
  {b \in [player_url : BOOLEAN, encrypted_signature : ReqStr,
          n_param : ReqStr] :
     ~b.player_url => b = NoBody}

\* the ways await execInPool(input) fails: it throws (no pool), or the
\* promise is rejected (queue full, timeout, worker fault, shutdown, error
\* message of the worker)
PoolRejections == {"threw", "rejected"}

\* what the calls of one request meet: how getPlayerFilePath ends
\* (validateUrl throws, loadMeta throws, the fetch fails, or the path),
\* whether the reads and the write succeed and how execInPool ends
AllEnvs ==
  [path : {"ok", "invalid", "meta", "failed"},
   preRead : BOOLEAN,
   playerRead : BOOLEAN,
   pool : PoolRejections \cup {"result"},
   preWrite : BOOLEAN]

\* one record for each way a request can go: what is never reached is fixed
Envs ==
  {e \in AllEnvs :
     /\ e.path # "ok" => e.preRead /\ e.playerRead /\ e.pool = "result"
     /\ e.pool # "result" => e.preWrite}

Handler ==
  [cache |-> cache, hstore |-> hstore, metaLoaded |-> metaLoaded,
   answered |-> answered, hret |-> NoResponse]

\* errorResponse(msg, status)
errorResponse(s, status) == [s EXCEPT !.hret.status = status]

\* jsonResponse(res)
jsonResponse(s, sig, n) ==
  [s EXCEPT !.hret.status = 200,
            !.hret.decrypted_signature = sig,
            !.hret.decrypted_n_sig = n]

\* cached.split("|"): the parts of s between the separators
RECURSIVE Split(_)
Split(s) ==
  LET i == FirstIn(s, 1, {"|"})
  IN IF i > Len(s) THEN <<s>>
     ELSE <<SubSeq(s, 1, i - 1)>> \o Split(SubSeq(s, i + 1, Len(s)))

\* parts[i] || ""
OrEmpty(parts, i) == IF i \in DOMAIN parts THEN parts[i] ELSE <<>>

\* the loop over output.responses: the value decoded for challenge ch
Decoded(responses, ch) ==
  LET found == {i \in DOMAIN responses :
                  /\ responses[i].type = "result"
                  /\ ch \in DOMAIN responses[i].data}
  IN IF ch = <<>> \/ found = {} THEN <<>>
     ELSE responses[CHOOSE i \in found : \A j \in found : j <= i].data[ch]

\* preprocessPlayer of the solving engine, a function of the script
preprocessPlayer(player) == player - MaxContent

\* worker.ts: the output posted for a task that does not throw
WorkerOutput(input) ==
  [type |-> "result",
   preprocessed_player |-> IF input.type = "player"
                           THEN preprocessPlayer(input.content)
                           ELSE input.content,
   responses |-> <<>>]

\* an entry of contentCache or of the processed store that is not older
\* than CACHE_TTL
Held(e, n) == e.v # Absent /\ n - e.t <= CACHE_TTL

\* getPreprocessed(path) of a loaded store: the payload, absent when there
\* is no entry, when it is expired and when the file cannot be read
handlerGetPreprocessed(s, env, n) ==
  IF Held(s.hstore.pre, n) /\ env.preRead
  THEN [s EXCEPT !.hret.input = [type |-> "preprocessed",
                                 content |-> s.hstore.pre.v]]
  ELSE [s EXCEPT !.hstore.pre = NoHeld,
                 !.hret.faults = IF Held(s.hstore.pre, n)
                                 THEN @ \cup {"preRead"} ELSE @]

\* getPlayerContent(path): from contentCache, or from the file
handlerGetPlayerContent(s, env, n) ==
  IF Held(s.hstore.content, n)
  THEN [s EXCEPT !.hret.input = [type |-> "player", content |-> PlayerScript]]
  ELSE IF env.playerRead
  THEN [s EXCEPT !.hstore.content = [v |-> PlayerScript, t |-> n],
                 !.hret.input = [type |-> "player", content |-> PlayerScript]]
  ELSE [s EXCEPT !.hstore.content = NoHeld,
                 !.hret.faults = @ \cup {"playerRead"}]

\* the handler after await execInPool(input) has resolved
handlerSolved(s, env, key, n) ==
  LET body == s.hret.body
      output == WorkerOutput(s.hret.input)
      store == output.preprocessed_player # Absent
                 /\ s.hret.input.type = "player"
      sig == Decoded(output.responses, body.encrypted_signature)
      nsig == Decoded(output.responses, body.n_param)
      value == sig \o <<"|">> \o nsig
  IN IF output.type = "error" THEN errorResponse(s, 500)
     ELSE IF store /\ ~env.preWrite
     THEN errorResponse([s EXCEPT !.hret.faults = @ \cup {"preWrite"}], 500)
     ELSE jsonResponse(
            [s EXCEPT !.hstore.pre =
                        IF store THEN [v |-> output.preprocessed_player,
                                       t |-> n]
                        ELSE @,
                      !.cache = set(s.cache, key, value, n).c,
                      !.answered[<<body.encrypted_signature, body.n_param>>] = [t |-> n, decrypted_signature |-> sig,
                                         decrypted_n_sig |-> nsig]],
            sig, nsig)

\* mutant of handlerExec: a rejection is answered like an empty result
handlerExec_cachesFailure(s, env, key, n) ==
  handlerSolved([s EXCEPT !.hret.tasks = @ + 1, !.hret.pool = env.pool],
                env, key, n)

\* await execInPool(input): a rejection leaves the handler and is answered
\* by the catch of server.ts
handlerExec(s, env, key, n) ==
  LET s1 == [s EXCEPT !.hret.tasks = @ + 1, !.hret.pool = env.pool]
  IN IF env.pool \in PoolRejections THEN errorResponse(s1, 500)
     ELSE handlerSolved(s1, env, key, n)

\* mutant of handlerMiss: a task is submitted without a script
handlerMiss_alwaysExec(s, env, key, n) ==
  LET s1 == handlerGetPreprocessed(s, env, n)
      s2 == IF s1.hret.input = NoInput THEN handlerGetPlayerContent(s1, env, n)
            ELSE s1
  IN handlerExec([s2 EXCEPT !.hret.input =
                              IF @ = NoInput
                              THEN [type |-> "player", content |-> Absent]
                              ELSE @],
                 env, key, n)

\* the handler after a miss of sigCache
handlerMiss(s, env, key, n) ==
  LET s1 == handlerGetPreprocessed(s, env, n)
      s2 == IF s1.hret.input = NoInput THEN handlerGetPlayerContent(s1, env, n)
            ELSE s1
  IN IF s2.hret.input = NoInput THEN errorResponse(s2, 500)
     ELSE handlerExec(s2, env, key, n)

\* mutant of handlerCached: the cached value is looked up but not served
handlerCached_recomputes(s, env, n) ==
  LET body == s.hret.body
      key == _key(HandlerPath, body.encrypted_signature, body.n_param)
      cached == get(s.cache, key, n)
  IN handlerMiss([s EXCEPT !.cache = cached.c], env, key, n)

\* the handler after getPlayerFilePath has returned the path
handlerCached(s, env, n) ==
  LET body == s.hret.body
      key == _key(HandlerPath, body.encrypted_signature, body.n_param)
      cached == get(s.cache, key, n)
      s1 == [s EXCEPT !.cache = cached.c]
  IN IF cached.tag = "hit"
     THEN LET parts == Split(cached.r)
          IN jsonResponse([s1 EXCEPT !.hret.hit = TRUE],
                          OrEmpty(parts, 1), OrEmpty(parts, 2))
     ELSE handlerMiss(s1, env, key, n)

\* handleDecryptSignature(req)
handleDecryptSignature(s, body, env, n) ==
  LET s0 == [s EXCEPT !.hret = [NoResponse EXCEPT !.body = body]]
      s1 == [s0 EXCEPT !.hret.path = env.path]
  IN IF ~body.player_url THEN errorResponse(s0, 400)
     ELSE IF env.path \in {"invalid", "meta"} THEN errorResponse(s1, 500)
     ELSE IF env.path = "failed"
     THEN errorResponse([s1 EXCEPT !.metaLoaded = TRUE], 500)
     ELSE handlerCached([s1 EXCEPT !.metaLoaded = TRUE], env, n)

----------------------------------------------------------------------------
(* The handler's events *)

\* a request is received and answered
HandleDecryptSignature(body, env) ==
  /\ nreq < MaxRequests
  /\ env.path = "meta" => ~metaLoaded
  /\ nreq' = nreq + 1
  /\ LET r == handleDecryptSignature(Handler, body, env, now)
     IN /\ cache' = r.cache
        /\ hstore' = r.hstore
        /\ metaLoaded' = r.metaLoaded
        /\ answered' = r.answered
        /\ hret' = r.hret
  /\ UNCHANGED <<poolVars, now, ret, keyIn, keyOut, playerVars, metadata,
                 metaDirty, saveTimer, saveDoc, files, metaFile, calls, dret,
                 written, ncalls, exits, reqs>>

\* time passes between two requests
HandlerTick ==
  /\ now < MaxTime
  /\ now' = now + 1
  /\ hret' = NoResponse
  /\ UNCHANGED <<poolVars, cache, ret, diskVars, keyIn, keyOut, playerVars,
                 hstore, answered, nreq, reqs>>

NextHandler ==
  \/ \E body \in Bodies, env \in Envs : HandleDecryptSignature(body, env)
  \/ HandlerTick

SpecHandler == Init /\ [][NextHandler]_vars

----------------------------------------------------------------------------
(* Requests in progress at the same time.  A request is suspended at      *)
(* await execInPool(input) and at the writeFile of setPreprocessed; the    *)
(* reads of the cache directory succeed and resume at once.                *)

\* the reads and the write of the cache directory succeed
ReadsOk ==
  [path |-> "ok", preRead |-> TRUE, playerRead |-> TRUE, pool |-> "result",
   preWrite |-> TRUE]

\* the bodies of the requests: all name the same player
RaceBodies == {b \in Bodies : b.player_url /\ b.n_param = <<>>}

\* the module state takes the values of the handler record s
HandlerCommit(s) ==
  /\ cache' = s.cache
  /\ hstore' = s.hstore
  /\ answered' = s.answered
  /\ hret' = s.hret
  /\ metaLoaded' = s.metaLoaded
  /\ UNCHANGED <<poolVars, now, ret, keyIn, keyOut, playerVars, metadata,
                 metaDirty, saveTimer, saveDoc, files, metaFile, calls, dret,
                 written, ncalls, exits>>

\* handleDecryptSignature from getSignature(key) to the call of
\* execInPool(input): the answer from sigCache, or the task's input
raceInput(s, n) ==
  LET body == s.hret.body
      key == _key(HandlerPath, body.encrypted_signature, body.n_param)
      cached == get(s.cache, key, n)
      s1 == [s EXCEPT !.cache = cached.c]
      s2 == handlerGetPreprocessed(s1, ReadsOk, n)
  IN IF cached.tag = "hit"
     THEN LET parts == Split(cached.r)
          IN jsonResponse([s1 EXCEPT !.hret.hit = TRUE],
                          OrEmpty(parts, 1), OrEmpty(parts, 2))
     ELSE IF s2.hret.input = NoInput
     THEN handlerGetPlayerContent(s2, ReadsOk, n)
     ELSE s2

\* the handler record of the request of slot r when it resumes
Resumed(r) ==
  [Handler EXCEPT !.hret.body = reqs[r].body, !.hret.input = reqs[r].input,
                  !.hret.tasks = 1]

\* the key of the request of slot r
RaceKey(r) ==
  _key(HandlerPath, reqs[r].body.encrypted_signature, reqs[r].body.n_param)

\* a request arrives while others are in progress and runs up to
\* await execInPool(input); getPlayerFilePath returns the path
RaceStart(r, body) ==
  /\ reqs[r].pc = "idle"
  /\ nreq < MaxRequests
  /\ nreq' = nreq + 1
  /\ LET s == raceInput([Handler EXCEPT !.hret.body = body,
                                        !.metaLoaded = TRUE], now)
     IN /\ HandlerCommit(s)
        /\ reqs' = IF s.hret.hit THEN reqs
                   ELSE [reqs EXCEPT ![r] = [pc |-> "exec", body |-> body,
                                            input |-> s.hret.input]]

\* execInPool rejects: the request is answered 500
RaceRejected(r) ==
  /\ reqs[r].pc = "exec"
  /\ HandlerCommit(handlerExec(Resumed(r),
                               [ReadsOk EXCEPT !.pool = "rejected"],
                               RaceKey(r), now))
  /\ reqs' = [reqs EXCEPT ![r] = NoRequest]
  /\ UNCHANGED nreq

\* execInPool resolves: a request that got no preprocessed form calls
\* setPreprocessed and is suspended at its writeFile, another one is
\* answered
RaceSolved(r) ==
  /\ reqs[r].pc = "exec"
  /\ IF WorkerOutput(reqs[r].input).preprocessed_player # Absent
          /\ reqs[r].input.type = "player"
     THEN /\ reqs' = [reqs EXCEPT ![r].pc = "write"]
          /\ HandlerCommit([Handler EXCEPT !.hret = hret])
     ELSE /\ HandlerCommit(handlerSolved(Resumed(r), ReadsOk, RaceKey(r), now))
          /\ reqs' = [reqs EXCEPT ![r] = NoRequest]
  /\ UNCHANGED nreq

\* the writeFile of setPreprocessed has resumed: the entry is stored and
\* the request is answered
RaceWritten(r) ==
  /\ reqs[r].pc = "write"
  /\ HandlerCommit(handlerSolved(Resumed(r), ReadsOk, RaceKey(r), now))
  /\ reqs' = [reqs EXCEPT ![r] = NoRequest]
  /\ UNCHANGED nreq

\* time passes
RaceTick ==
  /\ now < MaxTime
  /\ now' = now + 1
  /\ hret' = NoResponse
  /\ UNCHANGED <<poolVars, cache, ret, diskVars, keyIn, keyOut, playerVars,
                 hstore, answered, nreq, reqs>>

NextRace ==
  \/ \E r \in Slots, body \in RaceBodies : RaceStart(r, body)
  \/ \E r \in Slots : RaceRejected(r)
  \/ \E r \in Slots : RaceSolved(r)
  \/ \E r \in Slots : RaceWritten(r)
  \/ RaceTick

SpecRace == Init /\ [][NextRace]_vars

----------------------------------------------------------------------------
(* Vocabulary of the claims about the worker pool *)

Bound == Range(taskMap)
Queued == Range(queue)
LiveWorkers == (1..created) \ terminated
ExecResults == {"threw", "full", "accepted"}
Outcomes(how) == {t \in Tasks : settled[t] = <<how>>}

\* C1: in every reachable state, faults, timeouts and replacement included,
\* the active-task map holds at most poolSize entries.
C1_BoundedConcurrency == Cardinality(DOMAIN taskMap) <= CONCURRENCY

\* C2: every accepted task is settled exactly once: a task is in the queue
\* or the active-task map exactly while its promise is unsettled, a task
\* that left them has one settlement, and no task has two.
C2_SettledExactlyOnce ==
  \A t \in Tasks :
    /\ Len(settled[t]) <= 1
    /\ t > taskIdCounter => settled[t] = <<>> /\ t \notin Queued \cup Bound
    /\ t <= taskIdCounter => ((t \in Queued \cup Bound) <=> settled[t] = <<>>)

C2_Witness ==
  /\ Outcomes("timeout") # {}
  /\ Outcomes("fault") # {}
  /\ Outcomes("shutdown") # {}

\* C5: exec() on a pool whose queue holds MAX_QUEUE_SIZE tasks is rejected
\* at once and changes neither the queue, the worker set, the idle list,
\* the active-task map nor the task-id counter; the queue never grows past
\* MAX_QUEUE_SIZE.
C5_QueueFull ==
  /\ [](Len(queue) <= MAX_QUEUE_SIZE)
  /\ [][(pool /\ Len(queue) >= MAX_QUEUE_SIZE /\ res' \in ExecResults)
          => /\ res' = "full"
             /\ UNCHANGED <<queue, workers, availableWorkers, taskMap,
                            taskIdCounter, settled, timers>>]_vars

C5_Witness == res = "full" /\ Len(queue) = MAX_QUEUE_SIZE

\* C6: shutdown() rejects every queued and every in-flight task with the
\* shutdown error, terminates every worker of the worker set, empties the
\* queue, the worker set, the idle list and the active-task map, and leaves
\* no task timer armed; until a pool is created again no timer can fire.
C6_Shutdown ==
  /\ [][res' = "shutdown"
          => /\ \A t \in Tasks :
                  settled'[t] = IF t \in Queued \cup Bound
                                THEN <<"shutdown">> ELSE settled[t]
             /\ Range(workers) \subseteq terminated'
             /\ queue' = <<>> /\ workers' = <<>>
             /\ availableWorkers' = <<>> /\ taskMap' = <<>>
             /\ timers' = {}]_vars
  /\ [](~pool => timers = {} /\ queue = <<>> /\ taskMap = <<>>)

C6_Witness ==
  /\ res = "shutdown"
  /\ Cardinality(Outcomes("shutdown")) = 3
  /\ terminated # {}

\* C7: between shutdownWorkers() and the next initWorkers() every
\* execInPool() throws and changes nothing; after initWorkers() a call is
\* accepted again (unless the queue is full); shutdownWorkers() without a
\* pool and initWorkers() with a pool change nothing.
C7_Lifecycle ==
  /\ [][res' = "shutdown" => ~pool']_vars
  /\ [][(~pool /\ res' \in ExecResults)
          => res' = "threw" /\ UNCHANGED <<pool, taskIdCounter, poolFields>>]_vars
  /\ [][(~pool /\ pool') => res' = "init"]_vars
  /\ [][res' = "init" => (~pool /\ pool' /\ queue' = <<>> /\ taskMap' = <<>>)]_vars
  /\ [][(pool /\ res' \in ExecResults /\ Len(queue) < MAX_QUEUE_SIZE)
          => /\ res' = "accepted"
             /\ taskIdCounter' = taskIdCounter + 1
             /\ taskIdCounter' \in Range(queue') \cup Range(taskMap')]_vars
  /\ [][res' = "shutdown_noop"
          => ~pool /\ UNCHANGED <<pool, taskIdCounter, poolFields>>]_vars
  /\ [][res' = "init_noop"
          => pool /\ UNCHANGED <<pool, taskIdCounter, poolFields>>]_vars
  /\ [][res' \in {"shutdown", "shutdown_noop"}
          => (res' = "shutdown" <=> pool)]_vars
  /\ [][res' \in {"init", "init_noop"} => (res' = "init" <=> ~pool)]_vars

C7_Witness ==
  /\ pool
  /\ res = "accepted"
  /\ Outcomes("shutdown") # {}

\* C8: the worker set never holds more than poolSize workers and at most
\* poolSize workers exist that were not terminated.
C8_WorkerBound ==
  /\ Len(workers) <= CONCURRENCY
  /\ Cardinality(LiveWorkers) <= CONCURRENCY

C8_Witness ==
  /\ Len(workers) = CONCURRENCY
  /\ Cardinality(LiveWorkers) = CONCURRENCY
  /\ Outcomes("timeout") # {}
  /\ faults > 0
  /\ created >= CONCURRENCY + 2

\* C3: when every worker answers each task it is sent, every task accepted
\* by exec(), also one that had to wait in the queue because more than
\* poolSize tasks were submitted, is settled in the end.
C3_AllSettle ==
  \A t \in Tasks : (t <= taskIdCounter) ~> (settled[t] # <<>>)

\* more tasks than workers are pending and the pool has settled one already
C3_Witness ==
  /\ Cardinality(DOMAIN taskMap) = CONCURRENCY
  /\ Len(queue) = MAX_QUEUE_SIZE
  /\ Outcomes("resolved") # {}

\* C4: once a task has timed out, every task that is bound afterwards is
\* bound to a worker that was not terminated.
C4_BoundToLiveWorker ==
  [][Outcomes("timeout") # {}
       => \A w \in DOMAIN taskMap' :
            (w \notin DOMAIN taskMap \/ taskMap[w] # taskMap'[w])
              => w \notin terminated']_vars

----------------------------------------------------------------------------
(* Claims about the memory cache *)

CachedKeys == {cache[i].k : i \in DOMAIN cache}
EntryIn(cs, k) == cs[Find(cs, k)]
Entry(k) == EntryIn(cache, k)

\* C9: with maxSize >= 1, after any sequence of get, set and has the cache
\* holds at most maxSize entries (and no key twice).
C9_SizeBound ==
  /\ Len(cache) <= maxSize
  /\ \A i, j \in DOMAIN cache : cache[i].k = cache[j].k => i = j

C9_Witness == ret.op = "set" /\ ret.tag = "evict" /\ Len(cache) = maxSize

\* the call of the last step reported an entry: get returned a value, has
\* returned true
Reported ==
  \/ ret.op = "get" /\ ret.r # Absent
  \/ ret.op = "has" /\ ret.r

\* C10: a get or has of a key whose entry is older than ttl returns absent
\* (false) and removes the entry; what get returns and has confirms is the
\* value of an entry that is not older than ttl.
C10_NoExpired ==
  /\ [][(ret'.op \in {"get", "has"} /\ ret'.k \in CachedKeys
           /\ now - Entry(ret'.k).t > ttl)
          => /\ IF ret'.op = "get" THEN ret'.r = Absent ELSE ~ret'.r
             /\ \A i \in DOMAIN cache' : cache'[i].k # ret'.k
             /\ Len(cache') = Len(cache) - 1]_vars
  /\ [](Reported => /\ ret.k \in CachedKeys
                     /\ now - Entry(ret.k).t <= ttl
                     /\ ret.op = "get" => ret.r = Entry(ret.k).v)

C10_Witness == ret.op = "has" /\ ret.tag = "expired" /\ cache # <<>>

\* C11: set(k, v) stores v under k with the time of the call; no call other
\* than a set of k changes the value or the creation time of k's entry while
\* the entry stays in the cache (reads of any key, sets of other keys that
\* do not evict k); and get(k) on an entry not older than ttl returns the
\* stored value.  Hence get(k) after set(k, v) returns v.
C11_RoundTrip ==
  /\ [][ret'.op = "set"
          => /\ ret'.k \in CachedKeys'
             /\ EntryIn(cache', ret'.k).v = ret'.arg
             /\ EntryIn(cache', ret'.k).t = now]_vars
  /\ [][\A k \in CachedKeys \cap CachedKeys' :
           \/ ret'.op = "set" /\ ret'.k = k
           \/ /\ EntryIn(cache', k).v = Entry(k).v
              /\ EntryIn(cache', k).t = Entry(k).t]_vars
  /\ [][(ret'.op = "get" /\ ret'.k \in CachedKeys
           /\ now - Entry(ret'.k).t <= ttl)
          => ret'.r = Entry(ret'.k).v /\ ret'.r \in Values]_vars

\* a get hits an entry that is exactly ttl old, in a full cache
C11_Witness ==
  /\ ret.op = "get" /\ ret.tag = "hit"
  /\ now - Entry(ret.k).t = ttl
  /\ Len(cache) = maxSize

\* C12: the Map's order is the order of last use (e.a, the time of the last
\* set or successful get, never decreases along it); a set of a new key
\* into a full cache removes exactly the first, least recently used entry,
\* any other set removes nothing; and a key just read with get is last in
\* the order, so it is not the next victim while another key is cached.
C12_EvictsLRU ==
  /\ [](\A i, j \in DOMAIN cache : i < j => cache[i].a <= cache[j].a)
  /\ [][ret'.op = "set"
          => IF ret'.k \notin CachedKeys /\ Len(cache) = maxSize
             THEN /\ CachedKeys' = (CachedKeys \ {Head(cache).k}) \cup {ret'.k}
                  /\ \A i \in DOMAIN cache : Head(cache).a <= cache[i].a
             ELSE CachedKeys' = CachedKeys \cup {ret'.k}]_vars
  /\ []((ret.op \in {"get", "set"} /\ ret.k \in CachedKeys /\ Len(cache) > 1)
          => cache[Len(cache)].k = ret.k /\ Head(cache).k # ret.k)

\* an insertion into a full cache evicted the first key and kept a key that
\* a get had moved behind it
C12_Witness ==
  /\ ret.op = "set" /\ ret.tag = "evict"
  /\ Len(cache) = maxSize
  /\ cache[1].t < cache[1].a

----------------------------------------------------------------------------
(* Claims about the disk store *)

\* the file an entry of the metadata refers to
PathOf(e) == getFilePath(e.k, e.compressed)
MetaKeys == {metadata[i].k : i \in DOMAIN metadata}
MetaEntry(k) == metadata[FindMeta(metadata, k)]

C14_NoOrphanFile ==
  (Quiescent /\ metaLoaded)
    => \A f \in DOMAIN files :
         files[f] # NoFile
           => \E i \in DOMAIN metadata : PathOf(metadata[i]) = f

\* C15: the metadata document is read once: no read of it resumes, and
\* replaces the mirror, after metaLoaded was set.
C15_LoadedOnce ==
  [][\A s \in Slots :
       (calls[s].pc = "load" /\ calls'[s].pc # "load" /\ exits' = exits)
         => ~metaLoaded]_vars

\* C17: when a setPreprocessed has returned, the metadata holds at most
\* DISK_CACHE_SIZE entries.
C17_SizeBound == dret.op = "set" => Len(metadata) <= DISK_CACHE_SIZE

\* a step of the setPreprocessed of slot s
SetStep(s) == calls[s].op = "set" /\ calls'[s] # calls[s] /\ exits' = exits

\* C16: a setPreprocessed removes an entry only when its key is new and the
\* metadata holds at least DISK_CACHE_SIZE entries, and then exactly one,
\* whose a (lastAccessed) is the smallest of all entries; a successful
\* getPreprocessed sets the a of its entry to the time of the call.
C16_EvictsOldestAccess ==
  /\ [][\A s \in Slots :
          SetStep(s)
            => IF calls[s].pc = "evict"
               THEN /\ calls[s].k \notin MetaKeys
                    /\ Len(metadata) >= DISK_CACHE_SIZE
                    /\ \E k \in MetaKeys :
                         /\ MetaKeys' = MetaKeys \ {k}
                         /\ \A i \in DOMAIN metadata : MetaEntry(k).a <= metadata[i].a
               ELSE MetaKeys \subseteq MetaKeys']_vars
  /\ [][\A s \in Slots :
          (calls'[s].pc = "evict" /\ calls[s].pc # "evict")
            => /\ calls'[s].k \notin {metadata'[i].k : i \in DOMAIN metadata'}
               /\ Len(metadata') >= DISK_CACHE_SIZE]_vars
  /\ [](dret.op = "get" /\ dret.tag = "hit"
          => dret.k \in MetaKeys /\ MetaEntry(dret.k).a = now)

\* a set has evicted the entry inserted last and kept the one inserted
\* first, which a get had read since
C16_Witness ==
  /\ dret.op = "set" /\ dret.tag = "evict"
  /\ Len(metadata) = DISK_CACHE_SIZE
  /\ metadata[1].a > metadata[1].t

\* the call of slot s returns in this step
Returns(s, op) ==
  calls[s].op = op /\ calls'[s].pc = "idle" /\ exits' = exits

MetaEntryIn(m, k) == m[FindMeta(m, k)]

GetEnters(s) ==
  /\ calls'[s].op = "get"
  /\ calls[s].pc \in {"idle", "load"}
  /\ calls'[s].pc # "load"
  /\ exits' = exits

\* C20: a getPreprocessed that finds the entry of its key older than
\* CACHE_TTL takes the expiry path, on which it unlinks the payload file the
\* entry names, deletes the entry and returns absent; a getPreprocessed
\* that returns a payload has read an entry that is not older than
\* CACHE_TTL.
C20_NoExpiredPayload ==
  /\ [][\A s \in Slots :
          (GetEnters(s) /\ FindMeta(metadata', calls'[s].k) # 0)
            => IF now - MetaEntryIn(metadata', calls'[s].k).t > CACHE_TTL
               THEN /\ calls'[s].pc = "unlink"
                    /\ calls'[s].z = MetaEntryIn(metadata', calls'[s].k).compressed
               ELSE calls'[s].pc = "read"]_vars
  /\ [][\A s \in Slots :
          (Returns(s, "get") /\ calls[s].pc = "unlink")
            => /\ dret'.r = Absent
               /\ FindMeta(metadata', calls[s].k) = 0
               /\ files'[getFilePath(calls[s].k, calls[s].z)] = NoFile]_vars
  /\ [](dret.op = "get" /\ dret.r # Absent
          => /\ dret.tag = "hit"
             /\ dret.k \in MetaKeys
             /\ now - MetaEntry(dret.k).t <= CACHE_TTL)

\* a get has found an expired entry and removed it with its payload file
C20_Witness ==
  /\ dret.op = "get" /\ dret.tag = "expired"
  /\ dret.k \notin MetaKeys
  /\ \A z \in BOOLEAN : files[<<dret.k, z>>] = NoFile
  /\ metadata # <<>>

\* the keys of a metadata document
KeysOf(m) == {m[i].k : i \in DOMAIN m}

\* the entries a process end at this moment loses: written, within
\* CACHE_TTL, payload on disk, and their key not in meta.json
Unflushed ==
  {i \in DOMAIN metadata :
     /\ metadata[i].k \notin KeysOf(metaFile)
     /\ now - metadata[i].t <= CACHE_TTL
     /\ files[PathOf(metadata[i])] # NoFile}

\* C19: when the process ends between a payload write and the flush of
\* meta.json, a getPreprocessed after the restart returns absent or a
\* payload that was written for its key, and at most the newest write is
\* lost: at the end of the process at most one written entry is missing
\* from meta.json.
C19_CrashConsistency ==
  /\ [](dret.op = "get" /\ dret.r # Absent => <<dret.k, dret.r>> \in written)
  /\ [][exits' # exits => Cardinality(Unflushed) <= 1]_vars

----------------------------------------------------------------------------
(* Claims about the order and the eagerness of dispatch *)

\* C29: dispatch is FIFO: the queue holds the tasks in the order exec
\* accepted them (increasing ids), and a task that becomes bound to a worker
\* was accepted before every task still waiting in the queue.
C29_Fifo ==
  /\ [](\A i, j \in DOMAIN queue : i < j => queue[i] < queue[j])
  /\ [][\A t \in Range(taskMap') \ Range(taskMap) :
          \A a \in Range(queue') : t < a]_vars

\* a task that had to wait was bound when its turn came, one still waits
C29_Witness ==
  /\ settled[1] # <<>>
  /\ 2 \in Bound
  /\ 3 \in Queued

\* C30: work conservation: after every handler of the pool a task waits in
\* the queue only if no worker is idle and the worker set holds poolSize
\* workers.
C30_WorkConserving ==
  queue # <<>> => availableWorkers = <<>> /\ Len(workers) >= CONCURRENCY

\* a task timed out, its worker was replaced on demand and a task waits
C30_Witness ==
  /\ \E t \in Tasks : settled[t] = <<"timeout">>
  /\ queue # <<>>
  /\ Bound # {}

----------------------------------------------------------------------------
(* Claims about the decrypt-signature handler *)

\* C25: the signature result key identifies its (script path, encrypted
\* signature, n parameter): two requests that differ in one of the three
\* never get the same key.
C25_KeyUnique ==
  (keyOut # <<>> /\ keyIn[1] # keyIn[2]) => keyOut[1] # keyOut[2]

----------------------------------------------------------------------------
(* Claims about the player store *)

PlayerDone == pret.tag # "none"
HostOf(u) == ParseUrl(u).hostname
PlayerFile(h) == <<h, players[h].compressed>>
WithinTtl(h, n) == n - players[h].t <= PLAYER_TTL

\* C21: within one process, a call that ends well returns the local path of
\* its hash and leaves an entry with its file; between two calls an entry
\* stays as long as it is fresh; a call that finds a fresh entry goes to the
\* test of the file, and when the file is there it returns the same local
\* path without a fetch.
C21_SecondCallFromCache ==
  /\ [](pret.tag \in {"cached", "fetched"} =>
          /\ pret.r = baseFilePath(pret.h)
          /\ pret.h \in DOMAIN players
          /\ PlayerFile(pret.h) \in DOMAIN pfiles)
  /\ [][pcall.pc = "idle" /\ pcall'.pc = "idle" =>
          \A h \in DOMAIN players :
             WithinTtl(h, now') =>
               /\ h \in DOMAIN players'
               /\ players'[h].t = players[h].t
               /\ players'[h].compressed = players[h].compressed]_vars
  /\ [][/\ pcall.pc = "idle" /\ pcall'.pc # "idle" /\ metaLoaded
         /\ pcall'.h \in DOMAIN players
         /\ WithinTtl(pcall'.h, now)
         => pcall'.pc = "access" /\ pcall'.fetches = 0]_vars
  /\ [][/\ pcall.pc = "access" /\ pcall'.pc # "access"
         /\ PlayerFile(pcall.h) \in DOMAIN pfiles
         => /\ pret'.tag = "cached"
            /\ pret'.fetches = 0
            /\ pret'.r = baseFilePath(pcall.h)]_vars

\* a call was served from the store on the last instant of its entry's
\* life
C21_Witness ==
  /\ pret.tag = "cached"
  /\ pret.fetches = 0
  /\ now - players[pret.h].t = PLAYER_TTL

\* C22: a call whose fetch is answered without success throws, and when it
\* throws no file has been written and no entry is left for its hash; no
\* entry appears between two calls, and a call that finds no entry for its
\* hash goes to the fetch.
C22_FailedFetchLeavesNothing ==
  /\ [](pret.tag = "failed" =>
          /\ pret.r = Threw
          /\ pret.fetches = 1
          /\ pret.h \notin DOMAIN players
          /\ \A z \in BOOLEAN : <<pret.h, z>> \notin DOMAIN pfiles)
  /\ [][pcall.pc = "fetch" /\ pret'.tag = "failed" => pfiles' = pfiles]_vars
  /\ [][pcall.pc = "idle" /\ pcall'.pc = "idle" =>
          DOMAIN players' \subseteq DOMAIN players]_vars
  /\ [][/\ pcall.pc = "idle" /\ pcall'.pc # "idle" /\ metaLoaded
         /\ pcall'.h \notin DOMAIN players
         => pcall'.pc = "fetch"]_vars

\* the entry of an earlier call had expired, its file was unlinked and the
\* new fetch failed
C22_Witness ==
  /\ pret.tag = "failed"
  /\ npcalls > 1
  /\ now > PLAYER_TTL
  /\ players = <<>>
  /\ pfiles = <<>>

\* C23: a fetch is issued only to a URL whose host name is one of HOSTS; a
\* call with an input that is neither an absolute URL of such a host nor a
\* path under PATH_PREFIX throws before any fetch and changes nothing in
\* the store, and every other input goes on.
C23_AllowListedFetch ==
  /\ [](pcall.pc = "fetch" => HostOf(pcall.nurl) \in HOSTS)
  /\ [](pret.fetches > 0 => HostOf(pret.target) \in HOSTS)
  /\ [](pcall.pc # "idle" => pcall.allowed)
  /\ [](PlayerDone => (pret.tag = "invalid" <=> ~pret.allowed))
  /\ [](pret.tag = "invalid" => pret.r = Threw /\ pret.fetches = 0)
  /\ [][npcalls' # npcalls /\ pret'.tag = "invalid" =>
          UNCHANGED <<players, pfiles, diskVars>>]_vars

\* with a player in the store, a call with an input of another host threw
C23_Witness ==
  /\ pret.tag = "invalid"
  /\ \E h \in DOMAIN players :
       players[h].url = <<"https://", "www.youtube.com", "/s/player/">>
  /\ pfiles # <<>>

----------------------------------------------------------------------------
(* Claims about the decrypt-signature handler's use of the caches and the  *)
(* pool                                                                    *)

Answered == hret.status # 0
Resolved == hret.path = "ok"
PairOf(body) == <<body.encrypted_signature, body.n_param>>
KeyOf(body) == _key(HandlerPath, body.encrypted_signature, body.n_param)
AnsweredBefore(body) ==
  answered[PairOf(body)].t >= 0 /\ now - answered[PairOf(body)].t <= ttl
SameAsComputed(body) ==
  /\ hret'.status = 200
  /\ hret'.decrypted_signature = answered[PairOf(body)].decrypted_signature
  /\ hret'.decrypted_n_sig = answered[PairOf(body)].decrypted_n_sig

\* C24, as stated: a request for a resolved script whose pair was computed
\* not longer than the signature TTL ago is answered with the pair computed
\* then, without a call of execInPool.
C24_AnsweredPairFromCache ==
  [][nreq' # nreq /\ hret'.path = "ok" /\ AnsweredBefore(hret'.body) =>
       hret'.tasks = 0 /\ SameAsComputed(hret'.body)]_vars

\* C24, amended: a request for a resolved script whose pair was computed
\* not longer than the signature TTL ago and whose result is still in the
\* signature result cache is answered from the cache with the pair computed
\* then, without a call of execInPool.
C24_CachedPairFromCache ==
  [][/\ nreq' # nreq /\ hret'.path = "ok" /\ AnsweredBefore(hret'.body)
     /\ Find(cache, KeyOf(hret'.body)) # 0
     => hret'.hit /\ hret'.tasks = 0 /\ SameAsComputed(hret'.body)]_vars

\* a pair was answered from the cache on the last instant of its result's
\* life
C24_Witness ==
  /\ hret.hit
  /\ hret.tasks = 0
  /\ hret.body.encrypted_signature # <<>>
  /\ now - answered[PairOf(hret.body)].t = ttl

\* C26: a request whose task succeeded is answered with the computed
\* result, and a request that meets an unreadable or unparsable metadata
\* document is not answered with a failure: no failure of the cache layer
\* reaches the caller.
C26_CacheIsOptimisation ==
  Answered =>
    /\ hret.pool = "result" => hret.status = 200
    /\ hret.path = "meta" => hret.status # 500

C28_FailureNotCached ==
  /\ [][nreq' # nreq /\ hret'.pool \in PoolRejections =>
          /\ hret'.status = 500
          /\ \A i \in DOMAIN cache' : \E j \in DOMAIN cache :
                cache'[i] = cache[j]
          /\ hstore'.pre \in {hstore.pre, NoHeld}
          /\ answered' = answered]_vars
  /\ [](\A i \in DOMAIN cache : \E p \in DOMAIN answered :
          /\ cache[i].k = _key(HandlerPath, p[1], p[2])
          /\ cache[i].t = answered[p].t)

\* with results in the cache, a request's task was rejected
C28_Witness ==
  /\ hret.pool = "rejected"
  /\ hret.status = 500
  /\ hret.input.type = "preprocessed"
  /\ cache # <<>>

----------------------------------------------------------------------------
(* Claims about the idle list, the timers and the replacement of workers *)

\* C31: every worker in the idle list is a member of the worker set that
\* has not been terminated, and it is in the idle list once
C31_IdleListSound ==
  /\ \A i \in DOMAIN availableWorkers :
       /\ availableWorkers[i] \in Range(workers)
       /\ availableWorkers[i] \notin terminated
  /\ \A i, j \in DOMAIN availableWorkers :
       availableWorkers[i] = availableWorkers[j] => i = j

\* C35: a task is in at most one of the pending queue and the task map (and
\* there once), a worker is never both idle and bound, and a worker's
\* binding is replaced by another task only when its task has been settled
C35_Exclusive ==
  /\ [](/\ Range(queue) \cap Range(taskMap) = {}
        /\ \A i, j \in DOMAIN queue : queue[i] = queue[j] => i = j
        /\ \A v, w \in DOMAIN taskMap : taskMap[v] = taskMap[w] => v = w
        /\ Range(availableWorkers) \cap DOMAIN taskMap = {})
  /\ [][\A w \in DOMAIN taskMap \cap DOMAIN taskMap' :
          taskMap'[w] # taskMap[w] => settled'[taskMap[w]] # <<>>]_vars

\* a worker that answered its first task is bound to a later one while
\* another task waits
C35_Witness ==
  /\ queue # <<>>
  /\ \E w \in DOMAIN taskMap : taskMap[w] > 1 /\ settled[1] = <<"resolved">>

\* worker w has been terminated and is in none of the pool's collections
Gone(w) ==
  /\ w \in terminated
  /\ w \notin Range(workers)
  /\ w \notin Range(availableWorkers)
  /\ w \notin DOMAIN taskMap

\* the step rejects the task bound to worker w with the timeout error
TimesOut(w) ==
  /\ w \in DOMAIN taskMap
  /\ Len(settled'[taskMap[w]]) = Len(settled[taskMap[w]]) + 1
  /\ settled'[taskMap[w]][Len(settled'[taskMap[w]])] = "timeout"

\* C32: the worker of a task that times out is terminated and taken out
\* of the worker set, it is never idle and never bound again as long as the
\* pool lives, and a late message, an error event or the replacement timer
\* of such a worker changes no collection of the pool and settles no task
C32_TimedOutWorkerGone ==
  [][/\ \A w \in 1..created : TimesOut(w) => Gone(w)'
     /\ \A w \in 1..created : Gone(w) /\ created' >= created => Gone(w)'
     /\ \A w \in 1..created :
          Gone(w) /\ (LateMessage(w) \/ Fault(w) \/ ReplaceTimer(w))
            => UNCHANGED <<workers, availableWorkers, queue, taskMap, timers,
                           created, terminated, job, settled>>]_vars

\* the first task timed out, the late answer of its worker was delivered,
\* an error event was handled and its replacement timer has fired, and
\* another worker serves a later task
C32_Witness ==
  /\ settled[1] = <<"timeout">>
  /\ Gone(1)
  /\ 1 \notin late
  /\ faults = MaxFaults
  /\ replaceTimers = <<>>
  /\ taskMap # <<>>

\* C33: a task timer is armed only while its worker is bound to its task
\* and the task is unsettled; a timer that fires finds its worker bound to
\* its own task, rejects that task and terminates that worker; and a step
\* that rejects a task with the timeout error rejects no other task and
\* terminates no other worker
C33_TimerOfBoundTask ==
  /\ [](\A x \in timers :
          /\ x[1] \in DOMAIN taskMap
          /\ taskMap[x[1]] = x[2]
          /\ settled[x[2]] = <<>>)
  /\ [][\A w \in 1..created, t \in Tasks :
          Timeout(w, t) =>
            /\ w \in DOMAIN taskMap /\ taskMap[w] = t
            /\ settled' = [settled EXCEPT ![t] = <<"timeout">>]
            /\ terminated' = terminated \cup {w}]_vars

\* the worker answered its first task in time and was bound to the second
\* one, whose timer fired
C33_Witness ==
  /\ settled[1] = <<"resolved">>
  /\ settled[2] = <<"timeout">>
  /\ 1 \in terminated
  /\ created > 1

\* worker w awaits its replacement and is neither idle nor bound
Awaiting(w) ==
  /\ w \in DOMAIN replaceTimers
  /\ w \notin Range(availableWorkers)
  /\ w \notin DOMAIN taskMap

\* C34: the error event of a bound worker rejects the worker's task with
\* the fault and cancels its timer, and leaves the worker neither idle nor
\* bound; the worker stays so while it awaits the replacement; when the
\* replacement timer fires the worker is terminated and a fresh worker
\* takes its place in a worker set of the same size, and that worker is
\* bound to the task at the head of the queue or is idle; and no member
\* of the worker set awaits its replacement for ever: again and again
\* every worker with a replacement timer armed has been terminated
C34_FaultedWorkerReplaced ==
  /\ [][\A w \in 1..created :
          /\ Fault(w) /\ w \in DOMAIN taskMap =>
               /\ settled' = [settled EXCEPT ![taskMap[w]] = <<"fault">>]
               /\ \A x \in timers' : x[2] # taskMap[w]
               /\ Awaiting(w)'
          /\ Awaiting(w) /\ created' >= created =>
               /\ w \notin Range(availableWorkers')
               /\ w \notin DOMAIN taskMap'
          /\ ReplaceTimer(w) /\ Awaiting(w) /\ w \in Range(workers) =>
               /\ w \in terminated'
               /\ created' = created + 1
               /\ created' \notin terminated'
               /\ workers' = [workers EXCEPT ![IndexOf(workers, w)] = created']
               /\ IF queue # <<>>
                  THEN /\ created' \in DOMAIN taskMap'
                       /\ taskMap'[created'] = Head(queue)
                       /\ queue' = Tail(queue)
                  ELSE created' \in Range(availableWorkers')]_vars
  /\ []<>(\A w \in DOMAIN replaceTimers :
            w \in Range(workers) => w \in terminated)

\* a worker faulted while bound, its task was rejected with the fault, and
\* the fresh worker that replaced it serves a task that had been waiting
C34_Witness ==
  /\ settled[1] = <<"fault">>
  /\ 1 \in terminated
  /\ workers = <<2>>
  /\ 2 \in DOMAIN taskMap
  /\ replaceTimers = <<>>

----------------------------------------------------------------------------
(* Claims about the lifetime of memory cache entries *)

\* the entries of cs with another key than k, in their order
Others(cs, k) ==
  LET other(e) == e.k # k IN SelectSeq(cs, other)

\* C39: a get that hits moves the entry to the most recently used place
\* with its value and creation time and leaves the other entries as they
\* are; a has that hits changes nothing; a get or has reports an entry
\* expired exactly when more than ttl has passed since its creation time;
\* and the creation time of a key's entry changes only in a set of that
\* key, which makes it the time of the call
C39_ReadsKeepCreationTime ==
  [][/\ \A i \in DOMAIN cache :
          LET e == cache[i]
          IN /\ ret'.op = "get" /\ ret'.k = e.k /\ ret'.tag = "hit" =>
                  /\ cache'[Len(cache')] = [e EXCEPT !.a = now]
                  /\ Len(cache') = Len(cache)
                  /\ Others(cache', e.k) = Others(cache, e.k)
             /\ ret'.op = "has" /\ ret'.k = e.k /\ ret'.tag = "hit" =>
                  cache' = cache
             /\ ret'.op \in {"get", "has"} /\ ret'.k = e.k /\ now' = now =>
                  (ret'.tag = "hit" <=> now - e.t <= ttl)
             /\ \A j \in DOMAIN cache' :
                  cache'[j].k = e.k /\ cache'[j].t # e.t =>
                    /\ ret'.op = "set" /\ ret'.k = e.k
                    /\ cache'[j].t = now]_vars

\* an entry set at an earlier time was read by get and still carries the
\* time of its set
C39_Witness ==
  /\ ret.op = "get" /\ ret.tag = "hit"
  /\ cache # <<>>
  /\ cache[Len(cache)].k = ret.k
  /\ cache[Len(cache)].t < now
  /\ cache[Len(cache)].a = now
  /\ Len(cache) > 1

----------------------------------------------------------------------------
(* Claims about the persistence of the metadata *)

\* C36: no update of the metadata is lost: when no call is in progress and
\* no save is pending (nothing more is written unless another call is
\* made), the metadata document equals the in-memory metadata
C36_NoUpdateLost ==
  Quiescent /\ saveTimer = "none" /\ metaLoaded => metaFile = metadata

\* the step completes the sweep of slot s
SweepEnds(s) ==
  /\ calls[s].op = "cleanup"
  /\ calls[s].pc # "idle"
  /\ calls'[s].pc = "idle"

\* the sweep of slot s has removed an entry: it ends with the unlinkFile of
\* an expired entry or with its own save
SweepRemoved(s) == calls[s].pc \in {"sweep", "save"}

\* C37: when a sweep completes no entry older than CACHE_TTL at the time
\* the sweep read the clock is left in the metadata, and if the sweep
\* removed an entry the metadata document equals the metadata; and the
\* payload file of every entry a step of the sweep removes is deleted
C37_SweepPersistsRemovals ==
  /\ [][\A s \in Slots :
          SweepEnds(s) =>
            /\ \A i \in DOMAIN metadata' :
                 calls[s].n - metadata'[i].t <= CACHE_TTL
            /\ SweepRemoved(s) => metaFile' = metadata']_vars
  /\ [][\A s \in Slots :
          calls[s].op = "cleanup" /\ calls'[s] # calls[s] =>
            \A i \in DOMAIN metadata :
              FindMeta(metadata', metadata[i].k) = 0 =>
                files'[getFilePath(metadata[i].k, metadata[i].compressed)]
                  = NoFile]_vars

----------------------------------------------------------------------------
(* Claims about the content key *)

\* C40: two player URLs that validateUrl accepts and that differ after
\* normalization are never given the same content key (hash) by
\* getPlayerFilePath
C40_ContentKeySeparates ==
  (keyOut # <<>> /\ keyOut[1].url # keyOut[2].url)
    => keyOut[1].hash # keyOut[2].hash

----------------------------------------------------------------------------
(* Claims about requests in progress at the same time *)

\* C38: the preprocessed form of a script is written the first time only:
\* no request calls setPreprocessed while the store holds a fresh
\* preprocessed entry, and no write of setPreprocessed replaces a fresh
\* entry
C38_PersistedOnce ==
  [][\A r \in Slots :
       /\ reqs[r].pc = "exec" /\ reqs'[r].pc = "write"
            => ~Held(hstore.pre, now)
       /\ reqs[r].pc = "write" /\ reqs'[r].pc = "idle"
            => ~Held(hstore.pre, now)]_vars

====
